---- MODULE Spec2Model ----
(***************************************************************************)
(* The message-send pipeline of limnus-the-living-loom.                    *)
(*                                                                         *)
(* Server side: StreamingService (routes/chat/send-message/route), the     *)
(* singleton that wraps the upstream completion call with a fixed-window   *)
(* rate limiter, an idempotency cache with TTL, a circuit breaker and a    *)
(* retry loop with exponential backoff.                                    *)
(*                                                                         *)
(* JavaScript runs one handler segment at a time: the code between two     *)
(* awaits is atomic.  Every action below is one such segment.  Date.now()  *)
(* is the variable now; all reads of the clock inside one segment see the  *)
(* same value.  The two awaits of one attempt (fetch, response.json) touch *)
(* no shared state between them and are one step, fetchSettles.            *)
(*                                                                         *)
(* Client side: ChatProvider (the chat context hook): sendMessage with     *)
(* its optimistic append, word-by-word reveal, rollback and offline        *)
(* queueing, processOfflineQueue, the connectivity handlers and the        *)
(* history query.  React state is the pair store (the latest state, every  *)
(* queued update applied) and view (the state as last rendered): a         *)
(* callback reads the values of the render that created it, and keeps      *)
(* them (cap) across its awaits; functional updates (prev => ...) act on   *)
(* store.                                                                  *)
(*                                                                         *)
(* The actions are shared by several specifications, each of which draws   *)
(* the inputs of one concern: SpecRate and SpecRolling (rate limiter),     *)
(* SpecCache (idempotency cache), SpecBreaker and SpecBreakerSeq (circuit  *)
(* breaker), SpecRetry and SpecFail (retry loop), SpecOverlap (requests    *)
(* that overlap), SpecSend (sendMessage invocations), SpecClient           *)
(* (sendMessage with drains, connectivity events and history reloads),     *)
(* SpecDrain (drains and drain retries of a stored offline queue),         *)
(* SpecReconnect (drains with the connectivity handlers and both timers)   *)
(* SpecPrompt (a send over a loaded conversation, up to the body posted    *)
(* upstream) and SpecEvict (overlapping requests with one idempotency key  *)
(* and the eviction timers).                                               *)
(***************************************************************************)
EXTENDS Integers, Sequences, FiniteSets, TLC

(***************************************************************************)
(* Bounds of the model.                                                    *)
(***************************************************************************)
\* concurrent request handlers (in-flight processMessage calls)
NProcs == 2
\* clock advances per behaviour, in each specification
RateTicks == 3
CacheTicks == 4
BreakerTicks == 5
SeqTicks == 13
RetryTicks == 3
FailTicks == 7
OverlapTicks == 4
\* requests per behaviour, in SpecOverlap
OverlapCalls == 5
\* concurrent sendMessage and processOfflineQueue invocations of the client
NSends == 2
NDrains == 2
\* messages the client shows in SpecSend and SpecClient, and clock advances
\* in SpecDrain
MaxVisible == 2
ClientTicks == 2
\* entries of the offline queue, in SpecClient and SpecDrain
MaxQueued == 2
\* assistant replies the drains of one behaviour append, in SpecDrain
MaxDelivered == 4
\* requests and clock advances per behaviour, in SpecEvict
EvictCalls == 2
EvictTicks == 3
\* messages of the loaded conversation, in SpecPrompt
MaxHistory == 9
\* Date.now() when the process starts
Epoch == 100000

(***************************************************************************)
(* Program constants.                                                      *)
(***************************************************************************)
RateLimitMax == 15
RateWindowMs == 60000
CooldownMs == 30000
FailureThreshold == 3
SuccessTtlMs == 24 * 60 * 60 * 1000
FallbackTtlMs == 5 * 60 * 1000
MaxRetries == 3
BaseDelayMs == 1000
JitterMs == 500
FetchTimeoutMs == 30000
Endpoint == "ai-api"
LiveModel == "claude-3-5-sonnet"

(***************************************************************************)
(* Input domains.                                                          *)
(***************************************************************************)
\* optional values (undefined / null) are sets of at most one element
Nothing == {}
Some(x) == {x}
The(s) == CHOOSE x \in s : TRUE

ConversationIds == {"conv-1", "conv-2"}
\* user messages, as sequences of characters
Messages == {<<"H", "i">>, <<"w", "h", "y">>}
\* idempotencyKey: z.string().optional()
IdempotencyKeys == {Nothing, Some(""), Some("msg-1")}
\* Math.random() * 500 lies in [0, JitterMs)
Jitters == {0, JitterMs - 1}

(***************************************************************************)
(* Text: a string is a sequence of segments; a user message is a sequence  *)
(* of characters, so that String.includes and toLowerCase are computed.    *)
(***************************************************************************)
Includes(s, needle) ==
    \E i \in 0 .. (Len(s) - Len(needle)) :
        \A j \in 1 .. Len(needle) : s[i + j] = needle[j]

LowerChar(ch) ==
    CASE ch = "H" -> "h"
      [] ch = "I" -> "i"
      [] ch = "C" -> "c"
      [] OTHER -> ch

toLowerCase(s) == [i \in 1 .. Len(s) |-> LowerChar(s[i])]

generateFallbackResponse(userMessage) ==
    LET lowerMessage == toLowerCase(userMessage) IN
    IF Includes(lowerMessage, <<"h", "e", "l", "l", "o">>)
          \/ Includes(lowerMessage, <<"h", "i">>)
    THEN <<"Greetings, seeker! I am LIMNUS">>
    ELSE IF Includes(lowerMessage, <<"c", "o", "d", "e">>)
          \/ Includes(lowerMessage,
                      <<"p", "r", "o", "g", "r", "a", "m", "m", "i", "n", "g">>)
    THEN <<"Ah, the art of digital creation!">>
    ELSE IF Includes(lowerMessage, <<"h", "e", "l", "p">>)
          \/ Includes(lowerMessage, <<"a", "s", "s", "i", "s", "t">>)
    THEN <<"I am here to illuminate the path forward!">>
    ELSE <<"I sense your inquiry about: ">> \o userMessage
             \o <<" The cosmic threads of connection are temporarily tangled">>

\* error.message is a sequence of words
generateEnhancedFallbackResponse(userMessage, errorMessage) ==
    LET baseResponse == generateFallbackResponse(userMessage)
        errorContext ==
            IF Includes(errorMessage, <<"fetch">>) THEN "network connectivity"
            ELSE IF Includes(errorMessage, <<"timeout">>) THEN "response timeout"
            ELSE IF Includes(errorMessage, <<"rate", "limit">>) THEN "rate limiting"
            ELSE "service availability"
    IN baseResponse \o <<"Technical whisper: Experiencing ", errorContext,
                         " challenges.">>

(***************************************************************************)
(* Map<string, V>: a set of entries, each carrying its key.                *)
(***************************************************************************)
MapHas(m, k) == \E e \in m : e.key = k
MapGet(m, k) == CHOOSE e \in m : e.key = k
MapSet(m, k, e) == {x \in m : x.key # k} \cup {e}
MapDelete(m, k) == {x \in m : x.key # k}

VARIABLES
    now,             \* Date.now()
    ticks,           \* clock advances so far
    rateLimitMap,    \* StreamingService.rateLimitMap
    circuitBreaker,  \* StreamingService.circuitBreaker
    requestCache,    \* StreamingService.requestCache
    timers,          \* pending eviction timers of setIdempotencyCache
    h,               \* the request handlers: position and locals
    passLog,         \* history: per conversation, the times of the calls that
                     \* passed checkRateLimit during the last RateWindowMs
    failLog,         \* history: failed requests since the last upstream success
                     \* and since the breaker was last closed
    store,           \* client: the React state, every queued update applied
    view,            \* client: the state as of the last render, which the
                     \* callbacks created by that render have captured
    storage,         \* client: AsyncStorage item 'offlineMessageQueue'
    sends,           \* client: the sendMessage invocations
    drains,          \* client: the processOfflineQueue invocations
    reconnectTimer,  \* client: reconnectTimeout of the connectivity effect
    retryTimers,     \* client: pending 5 s timers set by processOfflineQueue
    sendLog          \* history: per sendMessage invocation, the visible list
                     \* and the queue when it was invoked

server == <<rateLimitMap, circuitBreaker, requestCache, timers, h, passLog, failLog>>
client == <<store, view, storage, sends, drains, reconnectTimer, retryTimers,
            sendLog>>

vars == <<now, ticks, rateLimitMap, circuitBreaker, requestCache, timers, h,
          passLog, failLog, store, view, storage, sends, drains, reconnectTimer,
          retryTimers, sendLog>>

Procs == 1 .. NProcs


(***************************************************************************)
(* StreamingService: the three maps' operations, as functions of the map   *)
(* and of the clock value t read by the call.                              *)
(***************************************************************************)
\* checkRateLimit with the ceiling tested by > instead of >=
checkRateLimit_offByOne(map, conversationId, t) ==
    IF ~MapHas(map, conversationId) \/ t > MapGet(map, conversationId).resetTime
    THEN [ok |-> TRUE,
          map |-> MapSet(map, conversationId,
                         [key |-> conversationId, count |-> 1,
                          resetTime |-> t + RateWindowMs])]
    ELSE LET limit == MapGet(map, conversationId) IN
         IF limit.count > RateLimitMax
         THEN [ok |-> FALSE, map |-> map]
         ELSE [ok |-> TRUE,
               map |-> MapSet(map, conversationId,
                              [limit EXCEPT !.count = @ + 1])]

\* checkRateLimit with the window replaced already at t = resetTime
checkRateLimit_earlyReset(map, conversationId, t) ==
    IF ~MapHas(map, conversationId) \/ t >= MapGet(map, conversationId).resetTime
    THEN [ok |-> TRUE,
          map |-> MapSet(map, conversationId,
                         [key |-> conversationId, count |-> 1,
                          resetTime |-> t + RateWindowMs])]
    ELSE LET limit == MapGet(map, conversationId) IN
         IF limit.count >= RateLimitMax
         THEN [ok |-> FALSE, map |-> map]
         ELSE [ok |-> TRUE,
               map |-> MapSet(map, conversationId,
                              [limit EXCEPT !.count = @ + 1])]

\* checkRateLimit with the count incremented before the ceiling is tested
checkRateLimit_countsRejected(map, conversationId, t) ==
    IF ~MapHas(map, conversationId) \/ t > MapGet(map, conversationId).resetTime
    THEN [ok |-> TRUE,
          map |-> MapSet(map, conversationId,
                         [key |-> conversationId, count |-> 1,
                          resetTime |-> t + RateWindowMs])]
    ELSE LET limit == MapGet(map, conversationId) IN
         [ok |-> limit.count < RateLimitMax,
          map |-> MapSet(map, conversationId, [limit EXCEPT !.count = @ + 1])]

\* checkRateLimit: [ok |-> the boolean returned, map |-> rateLimitMap after]
checkRateLimit(map, conversationId, t) ==
    IF ~MapHas(map, conversationId) \/ t > MapGet(map, conversationId).resetTime
    THEN [ok |-> TRUE,
          map |-> MapSet(map, conversationId,
                         [key |-> conversationId, count |-> 1,
                          resetTime |-> t + RateWindowMs])]
    ELSE LET limit == MapGet(map, conversationId) IN
         IF limit.count >= RateLimitMax
         THEN [ok |-> FALSE, map |-> map]
         ELSE [ok |-> TRUE,
               map |-> MapSet(map, conversationId,
                              [limit EXCEPT !.count = @ + 1])]

\* checkCircuitBreaker closing the breaker without resetting the failure count
checkCircuitBreaker_keepsCount(cb, endpoint, t) ==
    IF ~MapHas(cb, endpoint)
    THEN [ok |-> TRUE,
          cb |-> MapSet(cb, endpoint,
                        [key |-> endpoint, failures |-> 0, lastFailure |-> 0,
                         isOpen |-> FALSE])]
    ELSE LET breaker == MapGet(cb, endpoint)
             after == IF breaker.isOpen /\ (t - breaker.lastFailure) > CooldownMs
                      THEN [breaker EXCEPT !.isOpen = FALSE]
                      ELSE breaker
         IN [ok |-> ~after.isOpen, cb |-> MapSet(cb, endpoint, after)]

\* checkCircuitBreaker counting a refused call as a failure time
checkCircuitBreaker_extends(cb, endpoint, t) ==
    IF ~MapHas(cb, endpoint)
    THEN [ok |-> TRUE,
          cb |-> MapSet(cb, endpoint,
                        [key |-> endpoint, failures |-> 0, lastFailure |-> 0,
                         isOpen |-> FALSE])]
    ELSE LET breaker == MapGet(cb, endpoint)
             after == IF breaker.isOpen /\ (t - breaker.lastFailure) > CooldownMs
                      THEN [breaker EXCEPT !.isOpen = FALSE, !.failures = 0]
                      ELSE IF breaker.isOpen
                      THEN [breaker EXCEPT !.lastFailure = t]
                      ELSE breaker
         IN [ok |-> ~after.isOpen, cb |-> MapSet(cb, endpoint, after)]
\* checkCircuitBreaker: [ok |-> the boolean returned, cb |-> circuitBreaker after]
checkCircuitBreaker(cb, endpoint, t) ==
    IF ~MapHas(cb, endpoint)
    THEN [ok |-> TRUE,
          cb |-> MapSet(cb, endpoint,
                        [key |-> endpoint, failures |-> 0, lastFailure |-> 0,
                         isOpen |-> FALSE])]
    ELSE LET breaker == MapGet(cb, endpoint)
             after == IF breaker.isOpen /\ (t - breaker.lastFailure) > CooldownMs
                      THEN [breaker EXCEPT !.isOpen = FALSE, !.failures = 0]
                      ELSE breaker
         IN [ok |-> ~after.isOpen, cb |-> MapSet(cb, endpoint, after)]

\* recordFailure leaving lastFailure as it was
recordFailure_keepsTime(cb, endpoint, t) ==
    LET breaker == IF MapHas(cb, endpoint) THEN MapGet(cb, endpoint)
                   ELSE [key |-> endpoint, failures |-> 0, lastFailure |-> 0,
                         isOpen |-> FALSE]
        counted == [breaker EXCEPT !.failures = @ + 1]
    IN MapSet(cb, endpoint,
              IF counted.failures >= FailureThreshold
              THEN [counted EXCEPT !.isOpen = TRUE]
              ELSE counted)

\* recordFailure opening the breaker only above the threshold
recordFailure_lateOpen(cb, endpoint, t) ==
    LET breaker == IF MapHas(cb, endpoint) THEN MapGet(cb, endpoint)
                   ELSE [key |-> endpoint, failures |-> 0, lastFailure |-> 0,
                         isOpen |-> FALSE]
        counted == [breaker EXCEPT !.failures = @ + 1, !.lastFailure = t]
    IN MapSet(cb, endpoint,
              IF counted.failures > FailureThreshold
              THEN [counted EXCEPT !.isOpen = TRUE]
              ELSE counted)

recordFailure(cb, endpoint, t) ==
    LET breaker == IF MapHas(cb, endpoint) THEN MapGet(cb, endpoint)
                   ELSE [key |-> endpoint, failures |-> 0, lastFailure |-> 0,
                         isOpen |-> FALSE]
        counted == [breaker EXCEPT !.failures = @ + 1, !.lastFailure = t]
    IN MapSet(cb, endpoint,
              IF counted.failures >= FailureThreshold
              THEN [counted EXCEPT !.isOpen = TRUE]
              ELSE counted)

\* recordSuccess closing the breaker but keeping the failure count
recordSuccess_keepsCount(cb, endpoint) ==
    IF MapHas(cb, endpoint)
    THEN MapSet(cb, endpoint, [MapGet(cb, endpoint) EXCEPT !.isOpen = FALSE])
    ELSE cb

\* recordSuccess resetting the failure count but leaving the breaker as it is
recordSuccess_keepsOpen(cb, endpoint) ==
    IF MapHas(cb, endpoint)
    THEN MapSet(cb, endpoint, [MapGet(cb, endpoint) EXCEPT !.failures = 0])
    ELSE cb

recordSuccess(cb, endpoint) ==
    IF MapHas(cb, endpoint)
    THEN MapSet(cb, endpoint,
                [MapGet(cb, endpoint) EXCEPT !.failures = 0, !.isOpen = FALSE])
    ELSE cb

\* checkIdempotency marking what it returns as served from the cache
checkIdempotency_marksCached(cache, key, t) ==
    IF MapHas(cache, key) /\ MapGet(cache, key).expiresAt > t
    THEN [hit |-> Some([MapGet(cache, key).data EXCEPT !.metadata.cached = TRUE]),
          cache |-> cache]
    ELSE [hit |-> Nothing, cache |-> MapDelete(cache, key)]

\* checkIdempotency with an entry still served at t = expiresAt
checkIdempotency_lateExpiry(cache, key, t) ==
    IF MapHas(cache, key) /\ MapGet(cache, key).expiresAt >= t
    THEN [hit |-> Some(MapGet(cache, key).data), cache |-> cache]
    ELSE [hit |-> Nothing, cache |-> MapDelete(cache, key)]

\* checkIdempotency: [hit |-> the data returned (Nothing for null), cache |-> after]
checkIdempotency(cache, key, t) ==
    IF MapHas(cache, key) /\ MapGet(cache, key).expiresAt > t
    THEN [hit |-> Some(MapGet(cache, key).data), cache |-> cache]
    ELSE [hit |-> Nothing, cache |-> MapDelete(cache, key)]

\* setIdempotencyCache: the entry written and the eviction timer scheduled
setIdempotencyCache(cache, tm, key, result, ttlMs, t) ==
    [cache |-> MapSet(cache, key,
                      [key |-> key, data |-> result, expiresAt |-> t + ttlMs]),
     timers |-> tm \cup {[key |-> key, fireAt |-> t + ttlMs]}]

\* the callback of the eviction timer deleting whatever entry the key has
evictExpired_anyEntry(cache, key, t) == MapDelete(cache, key)
\* the callback of the eviction timer
evictExpired(cache, key, t) ==
    IF MapHas(cache, key) /\ MapGet(cache, key).expiresAt <= t
    THEN MapDelete(cache, key)
    ELSE cache

\* createFallbackResponse without the reason of the failure
createFallbackResponse_dropsReason(message, conversationId, errorReason, processingTime, t) ==
    [success |-> TRUE,
     message |-> [role |-> "assistant",
                  content |-> generateEnhancedFallbackResponse(message, errorReason),
                  timestamp |-> t],
     conversationId |-> conversationId,
     metadata |-> [processingTime |-> processingTime,
                   model |-> "fallback",
                   error |-> <<"Unknown", "error">>,
                   cached |-> FALSE,
                   endpoint |-> "fallback"]]

\* createFallbackResponse reporting the degraded answer as a failure
createFallbackResponse_failure(message, conversationId, errorReason, processingTime, t) ==
    [success |-> FALSE,
     message |-> [role |-> "assistant",
                  content |-> generateEnhancedFallbackResponse(message, errorReason),
                  timestamp |-> t],
     conversationId |-> conversationId,
     metadata |-> [processingTime |-> processingTime,
                   model |-> "fallback",
                   error |-> errorReason,
                   cached |-> FALSE,
                   endpoint |-> "fallback"]]

createFallbackResponse(message, conversationId, errorReason, processingTime, t) ==
    [success |-> TRUE,
     message |-> [role |-> "assistant",
                  content |-> generateEnhancedFallbackResponse(message, errorReason),
                  timestamp |-> t],
     conversationId |-> conversationId,
     metadata |-> [processingTime |-> processingTime,
                   model |-> "fallback",
                   error |-> errorReason,
                   cached |-> FALSE,
                   endpoint |-> "fallback"]]

(***************************************************************************)
(* The upstream call: what one fetch attempt can end in.                   *)
(***************************************************************************)
UpstreamReplies ==
    { [kind |-> "reject", status |-> 0, completion |-> <<>>, tokensUsed |-> 0],
      [kind |-> "abort", status |-> 0, completion |-> <<>>, tokensUsed |-> 0],
      [kind |-> "response", status |-> 500, completion |-> <<>>, tokensUsed |-> 0],
      [kind |-> "response", status |-> 200, completion |-> <<>>, tokensUsed |-> 0],
      [kind |-> "response", status |-> 200, completion |-> <<"hi there">>,
       tokensUsed |-> 0] }

\* the error thrown inside one attempt's try block (Nothing when it returns)
attemptError(reply) ==
    IF reply.kind = "reject" THEN Some(<<"fetch", "failed">>)
    ELSE IF reply.kind = "abort"
    THEN Some(<<"This", "operation", "was", "aborted">>)
    ELSE IF ~(reply.status \in 200 .. 299)
    THEN Some(<<"AI", "API", "error:", "500", "Internal Server Error">>)
    ELSE IF reply.completion = <<>>
    THEN Some(<<"Invalid", "AI", "API", "response:", "missing", "completion">>)
    ELSE Nothing

\* the value one successful attempt returns
attemptResult(reply, message) ==
    [completion |-> reply.completion,
     model |-> LiveModel,
     tokensUsed |-> IF reply.tokensUsed # 0 THEN reply.tokensUsed
                    ELSE (Len(message) + 3) \div 4]

\* backoffDelay with the exponent off by one: 2s, 4s
backoffDelay_doubled(attempt, jitter) == (2 ^ attempt) * BaseDelayMs + jitter

backoffDelay(attempt, jitter) == (2 ^ (attempt - 1)) * BaseDelayMs + jitter

successResponse(result, message, conversationId, startTime, t) ==
    [success |-> TRUE,
     message |-> [role |-> "assistant",
                  content |-> IF result.completion # <<>> THEN result.completion
                              ELSE generateFallbackResponse(message),
                  timestamp |-> t],
     conversationId |-> conversationId,
     metadata |-> [processingTime |-> t - startTime,
                   model |-> result.model,
                   tokensUsed |-> result.tokensUsed,
                   cached |-> FALSE,
                   endpoint |-> Endpoint]]

RateLimitError == <<"Rate", "limit", "exceeded.">>

\* an idempotencyKey that passes `if (idempotencyKey)`
Truthy(k) == k # Nothing /\ The(k) # ""

(***************************************************************************)
(* Client side: the chat context hook (ChatProvider).  A callback created  *)
(* by useCallback reads the state of the render that created it; a state   *)
(* setter acts on the latest state.  store is the latest state, view the   *)
(* state as last rendered, and every invocation keeps, as cap, the view it *)
(* was created from.                                                       *)
(***************************************************************************)
Sends == 1 .. NSends
Drains == 1 .. NDrains

\* String.trim on a sequence of characters
trim(s) ==
    LET inked == {i \in 1 .. Len(s) : s[i] # " "} IN
    IF inked = {} THEN <<>>
    ELSE SubSeq(s, CHOOSE i \in inked : \A j \in inked : i <= j,
                   CHOOSE i \in inked : \A j \in inked : i >= j)

\* what the user types
Contents == {<<" ", " ">>, <<"H", "i">>, <<" ", "o", "k", " ">>}

\* what sendMessageMutation.mutateAsync ends in: a response (result.message.content
\* as its words) or a rejection (error.message as its words, <<>> for none)
ClientReplies ==
    { [kind |-> "result", success |-> TRUE, content |-> <<"hi", "there">>,
       message |-> <<>>],
      [kind |-> "result", success |-> FALSE, content |-> <<>>, message |-> <<>>],
      [kind |-> "error", success |-> FALSE, content |-> <<>>,
       message |-> <<"Failed", "to", "fetch">>],
      [kind |-> "error", success |-> FALSE, content |-> <<>>,
       message |-> <<"Network", "request", "failed">>],
      [kind |-> "error", success |-> FALSE, content |-> <<>>,
       message |-> <<"Rate", "limit", "exceeded.">>],
      [kind |-> "error", success |-> FALSE, content |-> <<>>, message |-> <<>>] }

\* the messages a reload of the conversation's history brings
Histories == {<<>>, <<[role |-> "assistant", content |-> <<"welcome">>,
                       timestamp |-> 0]>>}

isNetworkError(errorMessage) ==
    \/ Includes(errorMessage, <<"Failed", "to", "fetch">>)
    \/ Includes(errorMessage, <<"Network", "request", "failed">>)

\* the error sendMessage throws from its catch block
friendlyError(errorMessage) ==
    LET shown == IF errorMessage = <<>> THEN <<"Unknown", "error">>
                 ELSE errorMessage
    IN IF isNetworkError(errorMessage)
       THEN <<"Connection lost. Your message has been saved and will be sent ",
              "when connection is restored.">>
       ELSE IF Includes(shown, <<"Rate", "limit">>)
       THEN <<"Please wait a moment before sending another message.">>
       ELSE <<"Failed to send message: ">> \o shown

\* the useState values after mount
InitialState ==
    [currentConversationId |-> Nothing, messages |-> <<>>, isSending |-> FALSE,
     streamingMessage |-> <<>>, isStreaming |-> FALSE, offlineQueue |-> <<>>,
     connectionStatus |-> "online"]

IdleSend ==
    [pc |-> "idle", cap |-> InitialState, userMessage |-> Nothing,
     request |-> Nothing, result |-> Nothing, shown |-> 0, caught |-> Nothing,
     newQueue |-> <<>>, outcome |-> "", raised |-> Nothing]

IdleDrain ==
    [pc |-> "idle", cap |-> InitialState, index |-> 0, processedMessages |-> <<>>,
     request |-> Nothing, caught |-> Nothing, remainingQueue |-> <<>>,
     submitted |-> <<>>]

(***************************************************************************)
(* Request handlers.                                                       *)
(***************************************************************************)
IdleHandler ==
    [pc |-> "idle", conversationId |-> "", message |-> <<>>,
     idempotencyKey |-> Nothing, startTime |-> 0, attempt |-> 0, issuedAt |-> 0,
     wakeAt |-> 0, lastError |-> <<>>, waits |-> <<>>, data |-> Nothing,
     result |-> Nothing,
     threw |-> Nothing, returned |-> Nothing]

Init ==
    /\ now = Epoch
    /\ ticks = 0
    /\ rateLimitMap = {}
    /\ circuitBreaker = {}
    /\ requestCache = {}
    /\ timers = {}
    /\ h = [p \in Procs |-> IdleHandler]
    /\ passLog = [c \in ConversationIds |-> <<>>]
    /\ failLog = [consecutive |-> 0, sinceClosed |-> 0]
    /\ store = InitialState
    /\ view = InitialState
    /\ storage = <<>>
    /\ sends = [i \in Sends |-> IdleSend]
    /\ drains = [d \in Drains |-> IdleDrain]
    /\ reconnectTimer = Nothing
    /\ retryTimers = {}
    /\ sendLog = [i \in Sends |-> [messages |-> <<>>, queue |-> <<>>]]

\* processMessage consulting the circuit breaker before the idempotency cache
processMessage_breakerFirst(p, conversationId, message, idempotencyKey) ==
    /\ h[p].pc = "idle"
    /\ LET call == [IdleHandler EXCEPT !.conversationId = conversationId,
                                       !.message = message,
                                       !.idempotencyKey = idempotencyKey,
                                       !.startTime = now]
           rl == checkRateLimit(rateLimitMap, conversationId, now)
           idem == IF Truthy(idempotencyKey)
                   THEN checkIdempotency(requestCache, The(idempotencyKey), now)
                   ELSE [hit |-> Nothing, cache |-> requestCache]
           br == checkCircuitBreaker(circuitBreaker, Endpoint, now)
       IN
       /\ rateLimitMap' = rl.map
       /\ IF ~rl.ok
          THEN /\ h' = [h EXCEPT ![p] = [call EXCEPT !.pc = "done",
                                                     !.threw = Some(RateLimitError)]]
               /\ UNCHANGED <<requestCache, circuitBreaker>>
          ELSE IF ~br.ok
          THEN /\ circuitBreaker' = br.cb
               /\ h' = [h EXCEPT ![p] =
                          [call EXCEPT
                             !.pc = "done",
                             !.returned = Some(createFallbackResponse(
                                 message, conversationId,
                                 <<"Circuit", "breaker", "open">>, 0, now))]]
               /\ UNCHANGED requestCache
          ELSE IF idem.hit # Nothing
          THEN /\ requestCache' = idem.cache
               /\ circuitBreaker' = br.cb
               /\ h' = [h EXCEPT ![p] = [call EXCEPT !.pc = "done",
                                                     !.returned = idem.hit]]
          ELSE /\ requestCache' = idem.cache
               /\ circuitBreaker' = br.cb
               /\ h' = [h EXCEPT ![p] = [call EXCEPT !.pc = "fetching",
                                                     !.attempt = 1,
                                                     !.issuedAt = now]]
    /\ UNCHANGED <<now, ticks, timers>>

\* processMessage up to its first await (or to its return / throw)
processMessage(p, conversationId, message, idempotencyKey) ==
    /\ h[p].pc = "idle"
    /\ LET call == [IdleHandler EXCEPT !.conversationId = conversationId,
                                       !.message = message,
                                       !.idempotencyKey = idempotencyKey,
                                       !.startTime = now]
           rl == checkRateLimit(rateLimitMap, conversationId, now)
           idem == IF Truthy(idempotencyKey)
                   THEN checkIdempotency(requestCache, The(idempotencyKey), now)
                   ELSE [hit |-> Nothing, cache |-> requestCache]
           br == checkCircuitBreaker(circuitBreaker, Endpoint, now)
       IN
       /\ rateLimitMap' = rl.map
       /\ IF ~rl.ok
          THEN \* throw new Error('Rate limit exceeded. ...')
               /\ h' = [h EXCEPT ![p] = [call EXCEPT !.pc = "done",
                                                     !.threw = Some(RateLimitError)]]
               /\ UNCHANGED <<requestCache, circuitBreaker>>
          ELSE IF idem.hit # Nothing
          THEN \* return cached
               /\ requestCache' = idem.cache
               /\ h' = [h EXCEPT ![p] = [call EXCEPT !.pc = "done",
                                                     !.returned = idem.hit]]
               /\ UNCHANGED circuitBreaker
          ELSE IF ~br.ok
          THEN \* return this.createFallbackResponse(..., 'Circuit breaker open')
               /\ requestCache' = idem.cache
               /\ circuitBreaker' = br.cb
               /\ h' = [h EXCEPT ![p] =
                          [call EXCEPT
                             !.pc = "done",
                             !.returned = Some(createFallbackResponse(
                                 message, conversationId,
                                 <<"Circuit", "breaker", "open">>, 0, now))]]
          ELSE \* callAIWithRetry, up to the first await fetch(...)
               /\ requestCache' = idem.cache
               /\ circuitBreaker' = br.cb
               /\ h' = [h EXCEPT ![p] = [call EXCEPT !.pc = "fetching",
                                                     !.attempt = 1,
                                                     !.issuedAt = now]]
    /\ UNCHANGED <<now, ticks, timers>>

\* callAIWithRetry: attempt h[p].attempt ends with `reply`
fetchSettles(p, reply, jitter) ==
    /\ h[p].pc = "fetching"
    /\ (reply.kind = "abort") => (now - h[p].issuedAt >= FetchTimeoutMs)
    /\ (reply.kind # "abort") => (now - h[p].issuedAt <= FetchTimeoutMs)
    /\ LET me == h[p]
           err == attemptError(reply)
           key == me.idempotencyKey
       IN
       IF err = Nothing
       THEN LET result == attemptResult(reply, me.message)
                response == successResponse(result, me.message, me.conversationId,
                                            me.startTime, now)
                w == IF Truthy(key)
                     THEN setIdempotencyCache(requestCache, timers, The(key),
                                              response, SuccessTtlMs, now)
                     ELSE [cache |-> requestCache, timers |-> timers]
            IN /\ circuitBreaker' = recordSuccess(circuitBreaker, Endpoint)
               /\ requestCache' = w.cache
               /\ timers' = w.timers
               /\ h' = [h EXCEPT ![p] = [me EXCEPT !.pc = "done",
                                                  !.data = Some(reply),
                                                  !.result = Some(result),
                                                  !.returned = Some(response)]]
       ELSE IF me.attempt < MaxRetries
       THEN LET delay == backoffDelay(me.attempt, jitter) IN
            /\ h' = [h EXCEPT ![p] = [me EXCEPT !.pc = "waiting",
                                               !.lastError = The(err),
                                               !.wakeAt = now + delay,
                                               !.waits = Append(@, delay)]]
            /\ UNCHANGED <<circuitBreaker, requestCache, timers>>
       ELSE LET response == createFallbackResponse(
                                me.message, me.conversationId, The(err),
                                now - me.startTime, now)
                w == IF Truthy(key)
                     THEN setIdempotencyCache(requestCache, timers, The(key),
                                              response, FallbackTtlMs, now)
                     ELSE [cache |-> requestCache, timers |-> timers]
            IN /\ circuitBreaker' = recordFailure(circuitBreaker, Endpoint, now)
               /\ requestCache' = w.cache
               /\ timers' = w.timers
               /\ h' = [h EXCEPT ![p] = [me EXCEPT !.pc = "done",
                                                  !.lastError = The(err),
                                                  !.returned = Some(response)]]
    /\ UNCHANGED <<now, ticks, rateLimitMap>>

\* callAIWithRetry: the backoff timer fires and the next attempt is issued
retryAfterBackoff(p) ==
    /\ h[p].pc = "waiting"
    /\ now >= h[p].wakeAt
    /\ h' = [h EXCEPT ![p] = [@ EXCEPT !.pc = "fetching",
                                       !.attempt = @ + 1,
                                       !.issuedAt = now]]
    /\ UNCHANGED <<now, ticks, rateLimitMap, circuitBreaker, requestCache, timers>>

\* the caller of sendMessageProcedure has received the result
settle(p) ==
    /\ h[p].pc = "done"
    /\ h' = [h EXCEPT ![p] = IdleHandler]
    /\ UNCHANGED <<now, ticks, rateLimitMap, circuitBreaker, requestCache, timers>>

\* the eviction timer of one cache write fires
evictionTimerFires(tm) ==
    /\ tm \in timers
    /\ now >= tm.fireAt
    /\ timers' = timers \ {tm}
    /\ requestCache' = evictExpired(requestCache, tm.key, now)
    /\ UNCHANGED <<now, ticks, rateLimitMap, circuitBreaker, h>>

(***************************************************************************)
(* The clock.  It moves to an instant at which some comparison of the code *)
(* changes its outcome: the last instant on one side and the first on the  *)
(* other side of each deadline held in the state.                          *)
(***************************************************************************)
\* now > limit.resetTime
RateInstants ==
    UNION { {e.resetTime, e.resetTime + 1} : e \in rateLimitMap }

\* (now - breaker.lastFailure) > cooldownPeriod
BreakerInstants ==
    UNION { {e.lastFailure + CooldownMs, e.lastFailure + CooldownMs + 1} :
            e \in {b \in circuitBreaker : b.isOpen} }

\* cached.expiresAt > Date.now(), and the eviction timers
CacheInstants ==
    UNION { {e.expiresAt - 1, e.expiresAt} : e \in requestCache }
    \cup { tm.fireAt : tm \in timers }

\* setTimeout(resolve, delay)
BackoffInstants ==
    { h[p].wakeAt : p \in {q \in Procs : h[q].pc = "waiting"} }

\* setTimeout(() => controller.abort(), 30000)
TimeoutInstants ==
    { h[p].issuedAt + FetchTimeoutMs : p \in {q \in Procs : h[q].pc = "fetching"} }

tick(t) ==
    /\ t > now
    /\ now' = t
    /\ ticks' = ticks + 1
    /\ UNCHANGED <<rateLimitMap, circuitBreaker, requestCache, timers, h>>

(***************************************************************************)
(* Client: sendMessage.  One action per stretch of code between two awaits *)
(* of invocation i.                                                        *)
(***************************************************************************)
\* Array.slice(0, -1)
dropLast(s) == IF s = <<>> THEN <<>> ELSE SubSeq(s, 1, Len(s) - 1)

\* (mutant) the last word is never shown
chunksOf_dropsLast(content) ==
    IF content = <<>> THEN <<"">> ELSE SubSeq(content, 1, Len(content) - 1)
\* String.split(' ') of a text given by its words
chunksOf(content) == IF content = <<>> THEN <<"">> ELSE content

\* sendMessage up to its first await (or to its return)
sendMessage(i, content) ==
    /\ sends[i].pc = "idle"
    /\ LET cap == view
           userMessage == [role |-> "user", content |-> trim(content),
                           timestamp |-> now]
           conversationId == IF cap.currentConversationId # Nothing
                             THEN The(cap.currentConversationId)
                             ELSE <<"conv", now>>
           call == [IdleSend EXCEPT !.cap = cap]
       IN
       IF trim(content) = <<>> \/ cap.isSending
       THEN \* return
            /\ sends' = [sends EXCEPT ![i] = [call EXCEPT !.pc = "done",
                                                          !.outcome = "ignored"]]
            /\ UNCHANGED store
       ELSE IF cap.connectionStatus = "offline"
       THEN \* await saveOfflineQueue(newQueue)
            /\ store' = [store EXCEPT !.messages = Append(@, userMessage)]
            /\ sends' = [sends EXCEPT ![i] =
                           [call EXCEPT !.pc = "saving",
                                        !.userMessage = Some(userMessage),
                                        !.newQueue = Append(cap.offlineQueue,
                                                            userMessage)]]
       ELSE \* await sendMessageMutation.mutateAsync(...)
            /\ store' = [store EXCEPT
                           !.messages = Append(@, userMessage),
                           !.isSending = TRUE,
                           !.isStreaming = TRUE,
                           !.streamingMessage = <<>>,
                           !.currentConversationId =
                               IF cap.currentConversationId = Nothing
                               THEN Some(conversationId) ELSE @]
            /\ sends' = [sends EXCEPT ![i] =
                           [call EXCEPT
                              !.pc = "calling",
                              !.userMessage = Some(userMessage),
                              !.request = Some(
                                  [conversationId |-> conversationId,
                                   message |-> trim(content),
                                   messages |-> Append(cap.messages, userMessage),
                                   idempotencyKey |-> <<"msg", now>>])]]
    /\ UNCHANGED <<now, ticks, view, storage, drains, reconnectTimer, retryTimers>>

\* the mutation settles: sendMessage from `result` on, or its catch block
sendReplied(i, reply) ==
    /\ sends[i].pc = "calling"
    /\ LET me == sends[i] IN
       IF reply.kind = "result" /\ reply.success
       THEN \* the first chunk is shown; await the typing timer
            LET message == [role |-> "assistant", content |-> reply.content,
                            timestamp |-> now]
            IN /\ store' = [store EXCEPT !.streamingMessage =
                                             SubSeq(chunksOf(reply.content), 1, 1)]
               /\ sends' = [sends EXCEPT ![i] =
                              [me EXCEPT !.pc = "revealing",
                                         !.result = Some(message),
                                         !.shown = 1]]
       ELSE IF reply.kind = "result"
       THEN \* result.success is false: only the finally block runs
            /\ store' = [store EXCEPT !.isSending = FALSE]
            /\ sends' = [sends EXCEPT ![i] = [me EXCEPT !.pc = "done",
                                                        !.outcome = "unsuccessful"]]
       ELSE IF isNetworkError(reply.message)
       THEN \* await saveOfflineQueue(newQueue), inside the catch block
            /\ store' = [store EXCEPT !.connectionStatus = "offline"]
            /\ sends' = [sends EXCEPT ![i] =
                           [me EXCEPT !.pc = "saving",
                                      !.caught = Some(reply.message),
                                      !.newQueue = Append(me.cap.offlineQueue,
                                                          The(me.userMessage))]]
       ELSE \* roll back, throw friendlyError; finally
            /\ store' = [store EXCEPT !.messages = dropLast(@),
                                      !.streamingMessage = <<>>,
                                      !.isStreaming = FALSE,
                                      !.isSending = FALSE]
            /\ sends' = [sends EXCEPT ![i] =
                           [me EXCEPT !.pc = "done",
                                      !.caught = Some(reply.message),
                                      !.outcome = "rolledBack",
                                      !.raised = Some(friendlyError(reply.message))]]
    /\ UNCHANGED <<now, ticks, view, storage, drains, reconnectTimer, retryTimers>>

\* the typing timer fires: the next chunk, or the end of the reveal
revealTimerFires(i) ==
    /\ sends[i].pc = "revealing"
    /\ LET me == sends[i]
           chunks == chunksOf(The(me.result).content)
       IN
       IF me.shown < Len(chunks)
       THEN /\ store' = [store EXCEPT !.streamingMessage =
                                          SubSeq(chunks, 1, me.shown + 1)]
            /\ sends' = [sends EXCEPT ![i] = [me EXCEPT !.shown = @ + 1]]
       ELSE /\ store' = [store EXCEPT !.messages = Append(@, The(me.result)),
                                      !.streamingMessage = <<>>,
                                      !.isStreaming = FALSE,
                                      !.isSending = FALSE]
            /\ sends' = [sends EXCEPT ![i] = [me EXCEPT !.pc = "done",
                                                        !.outcome = "committed"]]
    /\ UNCHANGED <<now, ticks, view, storage, drains, reconnectTimer, retryTimers>>

\* saveOfflineQueue settles (ok: AsyncStorage.setItem resolved), and sendMessage
\* runs on to its end
sendQueueSaved(i, ok) ==
    /\ sends[i].pc = "saving"
    /\ LET me == sends[i]
           saved == IF ok THEN [store EXCEPT !.offlineQueue = me.newQueue]
                    ELSE store
       IN
       /\ storage' = IF ok THEN me.newQueue ELSE storage
       /\ IF me.caught = Nothing
          THEN \* queued while offline: return
               /\ store' = saved
               /\ sends' = [sends EXCEPT ![i] = [me EXCEPT !.pc = "done",
                                                           !.outcome = "queued"]]
          ELSE \* queued after a network error: throw friendlyError; finally
               /\ store' = [saved EXCEPT !.streamingMessage = <<>>,
                                         !.isStreaming = FALSE,
                                         !.isSending = FALSE]
               /\ sends' = [sends EXCEPT ![i] =
                              [me EXCEPT !.pc = "done",
                                         !.outcome = "queued",
                                         !.raised = Some(friendlyError(
                                                        The(me.caught)))]]
    /\ UNCHANGED <<now, ticks, view, drains, reconnectTimer, retryTimers>>

\* the caller of sendMessage has seen it end
settleSend(i) ==
    /\ sends[i].pc = "done"
    /\ sends' = [sends EXCEPT ![i] = IdleSend]
    /\ UNCHANGED <<now, ticks, store, view, storage, drains, reconnectTimer,
                   retryTimers>>

(***************************************************************************)
(* Client: processOfflineQueue.  The callback is run by a direct call, by  *)
(* the reconnect timer or by its own 5 s retry timer, each time with the   *)
(* state captured by the render that created the callback.                 *)
(***************************************************************************)
RetryDelayMs == 5000
WebDebounceMs == 1000

\* (mutant) one entry more is cut off
sliceFrom_oneMore(s, k) == SubSeq(s, k + 2, Len(s))
\* Array.slice(k)
sliceFrom(s, k) == SubSeq(s, k + 1, Len(s))

\* the mutation input of the drain's submission of entry number index
drainRequest(cap, processedMessages, index) ==
    LET queuedMessage == cap.offlineQueue[index] IN
    [conversationId |-> IF cap.currentConversationId # Nothing
                        THEN The(cap.currentConversationId)
                        ELSE <<"conv", now>>,
     message |-> queuedMessage.content,
     messages |-> cap.messages \o processedMessages \o <<queuedMessage>>,
     idempotencyKey |-> <<"offline", queuedMessage.timestamp>>]

\* processOfflineQueue up to its first await (or to its return), as a function
\* of the captured state: the store and the invocation record after it
drainStart(cap) ==
    IF cap.connectionStatus # "online" \/ cap.offlineQueue = <<>>
    THEN [store |-> store,
          drain |-> [IdleDrain EXCEPT !.pc = "done", !.cap = cap]]
    ELSE LET request == drainRequest(cap, <<>>, 1) IN
         [store |-> [store EXCEPT
                       !.connectionStatus = "reconnecting",
                       !.currentConversationId =
                           IF cap.currentConversationId = Nothing
                           THEN Some(request.conversationId) ELSE @],
          drain |-> [IdleDrain EXCEPT !.pc = "calling", !.cap = cap, !.index = 1,
                                      !.request = Some(request),
                                      !.submitted = <<cap.offlineQueue[1]>>]]

\* a direct call of the processOfflineQueue the context exposes
processOfflineQueue(d) ==
    /\ drains[d].pc = "idle"
    /\ store' = drainStart(view).store
    /\ drains' = [drains EXCEPT ![d] = drainStart(view).drain]
    /\ UNCHANGED <<now, ticks, view, storage, sends, reconnectTimer, retryTimers>>

\* the mutation of the current entry settles: the rest of the loop body, then
\* the next submission or the await of saveOfflineQueue(remainingQueue)
drainReplied(d, reply) ==
    /\ drains[d].pc = "calling"
    /\ LET me == drains[d]
           queuedMessage == me.cap.offlineQueue[me.index]
           message == [role |-> "assistant", content |-> reply.content,
                       timestamp |-> now]
           delivered == reply.kind = "result" /\ reply.success
           processedMessages == IF delivered
                                THEN me.processedMessages \o <<queuedMessage, message>>
                                ELSE me.processedMessages
           shown == IF delivered THEN [store EXCEPT !.messages = Append(@, message)]
                    ELSE store
       IN
       IF reply.kind = "result" /\ me.index < Len(me.cap.offlineQueue)
       THEN LET request == drainRequest(me.cap, processedMessages, me.index + 1) IN
            /\ store' = [shown EXCEPT
                           !.currentConversationId =
                               IF me.cap.currentConversationId = Nothing
                               THEN Some(request.conversationId) ELSE @]
            /\ drains' = [drains EXCEPT ![d] =
                            [me EXCEPT
                               !.index = @ + 1,
                               !.processedMessages = processedMessages,
                               !.request = Some(request),
                               !.submitted =
                                   Append(@, me.cap.offlineQueue[me.index + 1])]]
       ELSE \* the loop has ended, or `break`
            /\ store' = shown
            /\ drains' = [drains EXCEPT ![d] =
                            [me EXCEPT
                               !.pc = "saving",
                               !.processedMessages = processedMessages,
                               !.request = Nothing,
                               !.caught = IF reply.kind = "error"
                                          THEN Some(reply.message) ELSE Nothing,
                               !.remainingQueue =
                                   sliceFrom(me.cap.offlineQueue,
                                             Len(processedMessages) \div 2)]]
    /\ UNCHANGED <<now, ticks, view, storage, sends, reconnectTimer, retryTimers>>

\* saveOfflineQueue(remainingQueue) settles, and processOfflineQueue runs on to
\* its end
drainQueueSaved(d, ok) ==
    /\ drains[d].pc = "saving"
    /\ LET me == drains[d] IN
       /\ storage' = IF ok THEN me.remainingQueue ELSE storage
       /\ store' = [store EXCEPT
                      !.offlineQueue = IF ok THEN me.remainingQueue ELSE @,
                      !.connectionStatus = "online"]
       /\ retryTimers' = IF me.remainingQueue # <<>>
                         THEN retryTimers \cup
                                  {[cap |-> me.cap, fireAt |-> now + RetryDelayMs]}
                         ELSE retryTimers
       /\ drains' = [drains EXCEPT ![d] = [me EXCEPT !.pc = "done"]]
    /\ UNCHANGED <<now, ticks, view, sends, reconnectTimer>>

\* a 5 s retry timer fires and runs the callback that set it
retryTimerFires(d, tm) ==
    /\ tm \in retryTimers
    /\ now >= tm.fireAt
    /\ drains[d].pc = "idle"
    /\ retryTimers' = retryTimers \ {tm}
    /\ store' = drainStart(tm.cap).store
    /\ drains' = [drains EXCEPT ![d] = drainStart(tm.cap).drain]
    /\ UNCHANGED <<now, ticks, view, storage, sends, reconnectTimer>>

settleDrain(d) ==
    /\ drains[d].pc = "done"
    /\ drains' = [drains EXCEPT ![d] = IdleDrain]
    /\ UNCHANGED <<now, ticks, store, view, storage, sends, reconnectTimer,
                   retryTimers>>

(***************************************************************************)
(* Client: rendering, the connectivity effect (web) and the history query. *)
(***************************************************************************)
\* the dependencies of the connectivity effect differ between two renders:
\* connectionStatus, offlineQueue.length, and processOfflineQueue, which is
\* recreated when connectionStatus, offlineQueue, currentConversationId or
\* messages change
effectDepsChanged(old, new) ==
    \/ old.connectionStatus # new.connectionStatus
    \/ old.offlineQueue # new.offlineQueue
    \/ old.currentConversationId # new.currentConversationId
    \/ old.messages # new.messages

\* React renders the latest state: the callbacks are recreated, and if its
\* dependencies changed the connectivity effect is cleaned up (which clears
\* reconnectTimeout) and run again.  rerun: the effect runs again although
\* the state it depends on is the same (the mutation and query objects among
\* the dependencies of processOfflineQueue are new objects).
render(rerun) ==
    /\ view # store
    /\ view' = store
    /\ reconnectTimer' = IF effectDepsChanged(view, store) \/ rerun
                         THEN Nothing ELSE reconnectTimer
    /\ UNCHANGED <<now, ticks, store, storage, sends, drains, retryTimers>>

\* window 'online' event
handleOnline ==
    /\ store' = [store EXCEPT !.connectionStatus = "online"]
    /\ reconnectTimer' = Some([cap |-> view, fireAt |-> now + WebDebounceMs])
    /\ UNCHANGED <<now, ticks, view, storage, sends, drains, retryTimers>>

\* window 'offline' event
handleOffline ==
    /\ store' = [store EXCEPT !.connectionStatus = "offline"]
    /\ reconnectTimer' = Nothing
    /\ UNCHANGED <<now, ticks, view, storage, sends, drains, retryTimers>>

\* the debounced timer of handleOnline fires
reconnectTimerFires(d) ==
    /\ reconnectTimer # Nothing
    /\ now >= The(reconnectTimer).fireAt
    /\ drains[d].pc = "idle"
    /\ reconnectTimer' = Nothing
    /\ LET cap == The(reconnectTimer).cap IN
       IF Len(cap.offlineQueue) > 0
       THEN /\ store' = drainStart(cap).store
            /\ drains' = [drains EXCEPT ![d] = drainStart(cap).drain]
       ELSE UNCHANGED <<store, drains>>
    /\ UNCHANGED <<now, ticks, view, storage, sends, retryTimers>>

\* messagesQuery delivers the conversation's messages: setMessages(data.messages)
historyLoaded(loaded) ==
    /\ view.currentConversationId # Nothing
    /\ store' = [store EXCEPT !.messages = loaded]
    /\ UNCHANGED <<now, ticks, view, storage, sends, drains, reconnectTimer,
                   retryTimers>>

\* the instants at which a client timer is due
ClientInstants ==
    { tm.fireAt : tm \in retryTimers } \cup { tm.fireAt : tm \in reconnectTimer }

(***************************************************************************)
(* History of the rate limiter: the calls checkRateLimit let through.      *)
(***************************************************************************)
history == <<passLog, failLog>>

logPass(conversationId) ==
    LET Recent(x) == x >= now - RateWindowMs IN
    IF checkRateLimit(rateLimitMap, conversationId, now).ok
    THEN [passLog EXCEPT ![conversationId] = Append(SelectSeq(@, Recent), now)]
    ELSE passLog

OkReply ==
    [kind |-> "response", status |-> 200, completion |-> <<"hi there">>,
     tokensUsed |-> 0]
ErrorReply ==
    [kind |-> "response", status |-> 500, completion |-> <<>>, tokensUsed |-> 0]

(***************************************************************************)
(* SpecRate: one handler at a time, two conversations, no idempotency key, *)
(* an upstream that answers.  The clock moves around the window deadlines. *)
(***************************************************************************)
NextRate ==
    \/ \E c \in ConversationIds :
          processMessage(1, c, <<"H", "i">>, Nothing) /\ UNCHANGED history /\ UNCHANGED client
    \/ fetchSettles(1, OkReply, 0) /\ UNCHANGED history /\ UNCHANGED client
    \/ settle(1) /\ UNCHANGED history /\ UNCHANGED client
    \/ \E t \in RateInstants :
          ticks < RateTicks /\ tick(t) /\ UNCHANGED history /\ UNCHANGED client

SpecRate == Init /\ [][NextRate]_vars

(***************************************************************************)
(* SpecRolling: SpecRate for one conversation, with the history of the     *)
(* calls that passed the rate limiter.                                     *)
(***************************************************************************)
NextRolling ==
    \/ /\ processMessage(1, "conv-1", <<"H", "i">>, Nothing)
       /\ passLog' = logPass("conv-1")
       /\ UNCHANGED failLog
       /\ UNCHANGED client
    \/ fetchSettles(1, OkReply, 0) /\ UNCHANGED history /\ UNCHANGED client
    \/ settle(1) /\ UNCHANGED history /\ UNCHANGED client
    \/ \E t \in RateInstants :
          ticks < RateTicks /\ tick(t) /\ UNCHANGED history /\ UNCHANGED client

SpecRolling == Init /\ [][NextRolling]_vars

(***************************************************************************)
(* SpecCache: requests of one conversation with and without idempotency    *)
(* key, an upstream that answers or fails, the eviction timers.  The clock *)
(* moves around the cache deadlines and the backoff timers.                *)
(***************************************************************************)
NextCache ==
    \/ \E m \in Messages, k \in IdempotencyKeys :
          processMessage(1, "conv-1", m, k) /\ UNCHANGED history /\ UNCHANGED client
    \/ \E reply \in {OkReply, ErrorReply} :
          fetchSettles(1, reply, 0) /\ UNCHANGED history /\ UNCHANGED client
    \/ retryAfterBackoff(1) /\ UNCHANGED history /\ UNCHANGED client
    \/ settle(1) /\ UNCHANGED history /\ UNCHANGED client
    \/ \E tm \in timers : evictionTimerFires(tm) /\ UNCHANGED history /\ UNCHANGED client
    \/ \E t \in CacheInstants \cup BackoffInstants :
          ticks < CacheTicks /\ tick(t) /\ UNCHANGED history /\ UNCHANGED client

SpecCache == Init /\ [][NextCache]_vars

(***************************************************************************)
(* History of the breaker: a request that exhausts its retries is one      *)
(* failure; an upstream success ends a run of failures; the breaker is     *)
(* closed by an upstream success or by the cooldown reset.                 *)
(***************************************************************************)
\* handler p's segment after its fetch: the request failed for good
requestFails(p) ==
    h[p].pc = "fetching" /\ h'[p].pc = "done" /\ h'[p].result = Nothing
requestSucceeds(p) ==
    h[p].pc = "fetching" /\ h'[p].pc = "done" /\ h'[p].result # Nothing
cooldownReset ==
    /\ MapHas(circuitBreaker, Endpoint) /\ MapGet(circuitBreaker, Endpoint).isOpen
    /\ ~MapGet(circuitBreaker', Endpoint).isOpen

logOutcome(p) ==
    IF requestFails(p)
    THEN failLog' = [consecutive |-> failLog.consecutive + 1,
                     sinceClosed |-> failLog.sinceClosed + 1]
    ELSE IF requestSucceeds(p)
    THEN failLog' = [consecutive |-> 0, sinceClosed |-> 0]
    ELSE UNCHANGED failLog

logReset ==
    IF cooldownReset
    THEN failLog' = [failLog EXCEPT !.sinceClosed = 0]
    ELSE UNCHANGED failLog

(***************************************************************************)
(* SpecBreaker: interleaved handlers of one conversation, no idempotency   *)
(* key, an upstream that answers or fails.  The clock moves around the     *)
(* backoff timers and the cooldown deadline.                               *)
(***************************************************************************)
NextBreaker ==
    \/ \E p \in Procs :
          /\ processMessage(p, "conv-1", <<"H", "i">>, Nothing)
          /\ logReset
          /\ UNCHANGED passLog
          /\ UNCHANGED client
    \/ \E p \in Procs, reply \in {OkReply, ErrorReply} :
          /\ fetchSettles(p, reply, 0)
          /\ logOutcome(p)
          /\ UNCHANGED passLog
          /\ UNCHANGED client
    \/ \E p \in Procs : retryAfterBackoff(p) /\ UNCHANGED history /\ UNCHANGED client
    \/ \E p \in Procs : settle(p) /\ UNCHANGED history /\ UNCHANGED client
    \/ \E t \in BackoffInstants \cup BreakerInstants :
          ticks < BreakerTicks /\ tick(t) /\ UNCHANGED history /\ UNCHANGED client

SpecBreaker == Init /\ [][NextBreaker]_vars

(***************************************************************************)
(* SpecBreakerSeq: SpecBreaker with one call at a time, over a longer      *)
(* stretch of time.                                                        *)
(***************************************************************************)
NextBreakerSeq ==
    \/ /\ processMessage(1, "conv-1", <<"H", "i">>, Nothing)
       /\ logReset
       /\ UNCHANGED passLog
       /\ UNCHANGED client
    \/ \E reply \in {OkReply, ErrorReply} :
          /\ fetchSettles(1, reply, 0)
          /\ logOutcome(1)
          /\ UNCHANGED passLog
          /\ UNCHANGED client
    \/ retryAfterBackoff(1) /\ UNCHANGED history /\ UNCHANGED client
    \/ settle(1) /\ UNCHANGED history /\ UNCHANGED client
    \/ \E t \in BackoffInstants \cup BreakerInstants :
          ticks < SeqTicks /\ tick(t) /\ UNCHANGED history /\ UNCHANGED client

SpecBreakerSeq == Init /\ [][NextBreakerSeq]_vars

(***************************************************************************)
(* SpecFail: one call at a time, with and without idempotency key, an      *)
(* upstream that answers or fails.  The clock moves around the backoff     *)
(* timers and the cooldown deadline, long enough for three requests to     *)
(* exhaust their retries.  The stretch of time covered is shorter than the *)
(* shortest cache TTL (5 minutes), so no cache entry runs out and no       *)
(* eviction timer is due in it.                                            *)
(***************************************************************************)
NextFail ==
    \/ \E k \in IdempotencyKeys :
          /\ processMessage(1, "conv-1", <<"H", "i">>, k)
          /\ logReset
          /\ UNCHANGED passLog
          /\ UNCHANGED client
    \/ \E reply \in {OkReply, ErrorReply} :
          /\ fetchSettles(1, reply, 0)
          /\ logOutcome(1)
          /\ UNCHANGED passLog
          /\ UNCHANGED client
    \/ retryAfterBackoff(1) /\ UNCHANGED history /\ UNCHANGED client
    \/ settle(1) /\ UNCHANGED history /\ UNCHANGED client
    \/ \E t \in BackoffInstants \cup BreakerInstants :
          ticks < FailTicks /\ tick(t) /\ UNCHANGED history /\ UNCHANGED client

SpecFail == Init /\ [][NextFail]_vars

(***************************************************************************)
(* SpecOverlap: interleaved handlers of one conversation, with and without *)
(* idempotency key, an upstream that answers or fails; a few requests,     *)
(* fewer than the rate limit.  The clock moves around the backoff timers.  *)
(***************************************************************************)
NextOverlap ==
    \/ \E p \in Procs, k \in {Nothing, Some("msg-1")} :
          /\ \A e \in rateLimitMap : e.count < OverlapCalls
          /\ processMessage(p, "conv-1", <<"H", "i">>, k)
          /\ logReset
          /\ UNCHANGED passLog
          /\ UNCHANGED client
    \/ \E p \in Procs, reply \in {OkReply, ErrorReply} :
          /\ fetchSettles(p, reply, 0)
          /\ logOutcome(p)
          /\ UNCHANGED passLog
          /\ UNCHANGED client
    \/ \E p \in Procs : retryAfterBackoff(p) /\ UNCHANGED history /\ UNCHANGED client
    \/ \E p \in Procs : settle(p) /\ UNCHANGED history /\ UNCHANGED client
    \/ \E t \in BackoffInstants :
          ticks < OverlapTicks /\ tick(t) /\ UNCHANGED history /\ UNCHANGED client

SpecOverlap == Init /\ [][NextOverlap]_vars

(***************************************************************************)
(* SpecRetry: one call at a time, every outcome of an upstream attempt,    *)
(* every jitter.  The clock moves around the backoff and abort timers.     *)
(***************************************************************************)
NextRetry ==
    \/ \E m \in Messages :
          processMessage(1, "conv-1", m, Nothing) /\ UNCHANGED history /\ UNCHANGED client
    \/ \E reply \in UpstreamReplies, j \in Jitters :
          fetchSettles(1, reply, j) /\ UNCHANGED history /\ UNCHANGED client
    \/ retryAfterBackoff(1) /\ UNCHANGED history /\ UNCHANGED client
    \/ settle(1) /\ UNCHANGED history /\ UNCHANGED client
    \/ \E t \in BackoffInstants \cup TimeoutInstants :
          ticks < RetryTicks /\ tick(t) /\ UNCHANGED history /\ UNCHANGED client

SpecRetry == Init /\ [][NextRetry]_vars

(***************************************************************************)
(* Vocabulary of the properties.                                           *)
(***************************************************************************)
\* this step is handler p's first segment of processMessage
Started(p) == h[p].pc = "idle" /\ h'[p].pc # "idle"
\* ... which threw the rate-limit error
Rejected(p) == h'[p].pc = "done" /\ h'[p].threw = Some(RateLimitError)
\* the conversation's window is current and has counted RateLimitMax requests
WindowFull(c) ==
    /\ MapHas(rateLimitMap, c)
    /\ MapGet(rateLimitMap, c).count >= RateLimitMax
    /\ now <= MapGet(rateLimitMap, c).resetTime
\* the window a request for c at the current instant starts afresh
WindowStale(c) ==
    ~MapHas(rateLimitMap, c) \/ now > MapGet(rateLimitMap, c).resetTime
\* the logged passes of c in the closed interval [from, to]
PassesIn(c, from, to) ==
    Cardinality({i \in 1 .. Len(passLog[c]) :
                    passLog[c][i] >= from /\ passLog[c][i] <= to})
OneEntryPerKey(m) == \A x \in m, y \in m : x.key = y.key => x = y

(***************************************************************************)
(* C1 as stated: for every conversation, at most 15 calls pass the rate    *)
(* limiter within any rolling 60-second interval [t, t + 60s].             *)
(***************************************************************************)
C1_RollingWindow ==
    \A c \in ConversationIds :
        \A i \in 1 .. Len(passLog[c]) :
            PassesIn(c, passLog[c][i], passLog[c][i] + RateWindowMs) <= RateLimitMax

(***************************************************************************)
(* C1 amended: for every conversation, at most 15 calls pass the rate      *)
(* limiter within the fixed window [resetTime - 60s, resetTime] opened by  *)
(* the request that created the window, and a further call inside that     *)
(* window throws the rate-limit error.                                     *)
(***************************************************************************)
FixedWindowBound ==
    \A c \in ConversationIds :
        MapHas(rateLimitMap, c) =>
            LET w == MapGet(rateLimitMap, c) IN
            /\ PassesIn(c, w.resetTime - RateWindowMs, w.resetTime) = w.count
            /\ PassesIn(c, w.resetTime - RateWindowMs, w.resetTime) <= RateLimitMax

C1_FixedWindow ==
    [][/\ FixedWindowBound'
       /\ \A p \in Procs :
             (Started(p) /\ WindowFull(h'[p].conversationId)) => Rejected(p)]_vars

\* the window is full, a call was rejected, and all 15 passes are on record
C1_Witness ==
    /\ h[1].pc = "done"
    /\ h[1].threw = Some(RateLimitError)
    /\ WindowFull("conv-1")
    /\ PassesIn("conv-1", Epoch, Epoch + RateWindowMs) = RateLimitMax
    /\ now > Epoch

(***************************************************************************)
(* C3: every rate-limit window has 1 <= count <= 15; a request arriving    *)
(* with no window or with now > resetTime replaces the window by count = 1 *)
(* and resetTime = now + 60000 in one step; a request arriving with        *)
(* now <= resetTime and count < 15 increments count by exactly 1 and       *)
(* leaves resetTime unchanged.  The windows of other conversations are     *)
(* not touched.                                                            *)
(***************************************************************************)
WindowCountInRange ==
    /\ OneEntryPerKey(rateLimitMap)
    /\ \A e \in rateLimitMap : 1 <= e.count /\ e.count <= RateLimitMax

WindowStep(p) ==
    LET c == h'[p].conversationId
        after == MapGet(rateLimitMap', c)
    IN
    /\ \A e \in rateLimitMap : e.key # c => e \in rateLimitMap'
    /\ \A e \in rateLimitMap' : e.key # c => e \in rateLimitMap
    /\ WindowStale(c) =>
          /\ MapHas(rateLimitMap', c)
          /\ after.count = 1
          /\ after.resetTime = now + 60000
    /\ (~WindowStale(c) /\ MapGet(rateLimitMap, c).count < 15) =>
          /\ MapHas(rateLimitMap', c)
          /\ after.count = MapGet(rateLimitMap, c).count + 1
          /\ after.resetTime = MapGet(rateLimitMap, c).resetTime

C3_WindowEvolution ==
    [][/\ WindowCountInRange'
       /\ \A p \in Procs : Started(p) => WindowStep(p)
       /\ (\A p \in Procs : ~Started(p)) => rateLimitMap' = rateLimitMap]_vars

\* a second window has replaced the first and has been incremented, while the
\* other conversation's window is full
C3_Witness ==
    /\ MapHas(rateLimitMap, "conv-1")
    /\ MapGet(rateLimitMap, "conv-1").resetTime > Epoch + RateWindowMs
    /\ MapGet(rateLimitMap, "conv-1").count = 2
    /\ MapHas(rateLimitMap, "conv-2")
    /\ MapGet(rateLimitMap, "conv-2").count = RateLimitMax

(***************************************************************************)
(* C2: a call for a conversation whose current window has counted 15       *)
(* requests (now <= resetTime) throws the rate-limit error, is not turned  *)
(* into a response, makes no upstream attempt and leaves the idempotency   *)
(* cache, the circuit breaker and the window unchanged.                    *)
(***************************************************************************)
C2_RejectionChangesNothing ==
    [][\A p \in Procs :
          (Started(p) /\ WindowFull(h'[p].conversationId)) =>
              /\ Rejected(p)
              /\ h'[p].returned = Nothing
              /\ h'[p].attempt = 0
              /\ requestCache' = requestCache
              /\ timers' = timers
              /\ circuitBreaker' = circuitBreaker
              /\ rateLimitMap' = rateLimitMap]_vars

\* a rejected call whose key has a live cache entry, with the breaker on record
C2_Witness ==
    /\ h[1].pc = "done"
    /\ h[1].threw = Some(RateLimitError)
    /\ h[1].idempotencyKey = Some("msg-1")
    /\ MapHas(requestCache, "msg-1")
    /\ MapGet(requestCache, "msg-1").expiresAt > now
    /\ MapHas(circuitBreaker, Endpoint)
    /\ MapGet(rateLimitMap, "conv-1").count = RateLimitMax

(***************************************************************************)
(* Vocabulary of the idempotency cache.                                    *)
(***************************************************************************)
\* handler p's call carries a key that `if (idempotencyKey)` accepts
Keyed(p) == Truthy(h'[p].idempotencyKey)
KeyOf(p) == The(h'[p].idempotencyKey)
LiveEntry(k) == MapHas(requestCache, k) /\ MapGet(requestCache, k).expiresAt > now
DeadEntry(k) == MapHas(requestCache, k) /\ MapGet(requestCache, k).expiresAt <= now
\* the breaker refuses a call at the current instant
BreakerBlocks ==
    /\ MapHas(circuitBreaker, Endpoint)
    /\ MapGet(circuitBreaker, Endpoint).isOpen
    /\ now - MapGet(circuitBreaker, Endpoint).lastFailure <= CooldownMs
\* this step is the segment in which handler p's call returns after its
\* upstream call
Answered(p) == h[p].pc = "fetching" /\ h'[p].pc = "done"

(***************************************************************************)
(* C4: a call with an idempotency key whose cache entry has                *)
(* expiresAt > now, and which is not rate limited, returns exactly the     *)
(* stored response (the response the writing call returned), makes no      *)
(* upstream attempt, leaves the circuit breaker alone and writes nothing   *)
(* to the cache.                                                           *)
(***************************************************************************)
C4_CachedReturn ==
    [][\A p \in Procs :
          /\ (Started(p) /\ ~WindowFull(h'[p].conversationId)
                /\ Keyed(p) /\ LiveEntry(KeyOf(p))) =>
                /\ h'[p].pc = "done"
                /\ h'[p].threw = Nothing
                /\ h'[p].returned = Some(MapGet(requestCache, KeyOf(p)).data)
                /\ h'[p].attempt = 0
                /\ circuitBreaker' = circuitBreaker
                /\ requestCache' = requestCache
                /\ timers' = timers
          /\ (Answered(p) /\ Keyed(p)) =>
                /\ MapHas(requestCache', KeyOf(p))
                /\ h'[p].returned = Some(MapGet(requestCache', KeyOf(p)).data)]_vars

\* a call answered from the cache with a response made at an earlier instant
C4_Witness ==
    /\ h[1].pc = "done"
    /\ h[1].attempt = 0
    /\ h[1].returned # Nothing
    /\ h[1].idempotencyKey = Some("msg-1")
    /\ MapHas(requestCache, "msg-1")
    /\ h[1].returned = Some(MapGet(requestCache, "msg-1").data)
    /\ The(h[1].returned).metadata.model = LiveModel
    /\ The(h[1].returned).message.timestamp < now
    /\ The(h[1].returned).message.content # <<>>

(***************************************************************************)
(* C5: the cache holds at most one entry per key; an entry is written with *)
(* expiresAt = now + 24 h (success) or now + 5 min (fallback); a lookup at *)
(* now >= expiresAt returns absent and removes the entry, and the call     *)
(* goes on to the breaker check and, the breaker being closed, to a fresh  *)
(* upstream attempt.                                                       *)
(***************************************************************************)
C5_ExpiredLookup ==
    [][/\ OneEntryPerKey(requestCache')
       /\ \A p \in Procs :
          /\ (Started(p) /\ ~WindowFull(h'[p].conversationId)
                /\ Keyed(p) /\ DeadEntry(KeyOf(p))) =>
                /\ ~MapHas(requestCache', KeyOf(p))
                /\ h'[p].returned # Some(MapGet(requestCache, KeyOf(p)).data)
                /\ MapHas(circuitBreaker', Endpoint)
                /\ ~BreakerBlocks =>
                      /\ h'[p].pc = "fetching"
                      /\ h'[p].attempt = 1
                      /\ h'[p].issuedAt = now
          /\ (Answered(p) /\ Keyed(p)) =>
                MapGet(requestCache', KeyOf(p)).expiresAt =
                    now + (IF The(h'[p].returned).metadata.model = "fallback"
                           THEN 5 * 60 * 1000
                           ELSE 24 * 60 * 60 * 1000)]_vars

\* a fresh attempt is under way for a key whose fallback entry and whose
\* success entry have both run out: both eviction timers are still pending
C5_Witness ==
    /\ h[1].pc = "fetching"
    /\ h[1].attempt = 1
    /\ h[1].idempotencyKey = Some("msg-1")
    /\ ~MapHas(requestCache, "msg-1")
    /\ \E a \in timers, b \in timers :
          /\ a.key = "msg-1" /\ b.key = "msg-1"
          /\ a.fireAt <= now
          /\ b.fireAt = now
          /\ b.fireAt = a.fireAt + SuccessTtlMs

(***************************************************************************)
(* Vocabulary of the circuit breaker.                                      *)
(***************************************************************************)
\* handler p's call is neither rate limited nor answered from the cache
ReachesBreaker(p) ==
    /\ ~WindowFull(h'[p].conversationId)
    /\ ~(Keyed(p) /\ LiveEntry(KeyOf(p)))
BreakerOpen ==
    MapHas(circuitBreaker, Endpoint) /\ MapGet(circuitBreaker, Endpoint).isOpen
WithinCooldown ==
    /\ MapHas(circuitBreaker, Endpoint)
    /\ now - MapGet(circuitBreaker, Endpoint).lastFailure <= CooldownMs
CircuitOpenReason == <<"Circuit", "breaker", "open">>
\* the response is the breaker-open fallback
RefusedByBreaker(r) ==
    "error" \in DOMAIN r.metadata /\ r.metadata.error = CircuitOpenReason
\* handler p's call ended in its first segment with the breaker-open fallback
BreakerFallback(p) ==
    /\ h'[p].pc = "done"
    /\ h'[p].attempt = 0
    /\ h'[p].threw = Nothing
    /\ h'[p].returned # Nothing
    /\ The(h'[p].returned).metadata.model = "fallback"
    /\ The(h'[p].returned).metadata.error = CircuitOpenReason

(***************************************************************************)
(* C6 as stated: after 3 consecutive failed requests with no upstream      *)
(* success in between, every call that reaches the breaker check within    *)
(* 30 s of the last recorded failure returns a fallback and makes no       *)
(* upstream attempt.                                                       *)
(***************************************************************************)
C6_AfterThreeFailures ==
    [][\A p \in Procs :
          (Started(p) /\ ReachesBreaker(p) /\ failLog.consecutive >= 3
              /\ WithinCooldown) => BreakerFallback(p)]_vars

(***************************************************************************)
(* C6 amended: after 3 consecutive failed requests with neither an         *)
(* upstream success nor a cooldown reset of the breaker in between, every  *)
(* call that reaches the breaker check within 30 s of the last recorded    *)
(* failure returns a fallback and makes no upstream attempt.               *)
(***************************************************************************)
C6_AfterThreeFailuresSinceClosed ==
    [][\A p \in Procs :
          (Started(p) /\ ReachesBreaker(p) /\ failLog.sinceClosed >= 3
              /\ WithinCooldown) =>
              /\ BreakerFallback(p)
              /\ circuitBreaker' = circuitBreaker]_vars

\* the third failure in a row has just been recorded and a call made at the
\* last instant of the cooldown was answered by the fallback
C6_Witness ==
    /\ h[1].pc = "done"
    /\ h[1].attempt = 0
    /\ h[1].returned # Nothing
    /\ RefusedByBreaker(The(h[1].returned))
    /\ failLog.sinceClosed = 3
    /\ failLog.consecutive = 3
    /\ now = MapGet(circuitBreaker, Endpoint).lastFailure + CooldownMs

(***************************************************************************)
(* C7: with the breaker open and more than 30 s past lastFailure, the next *)
(* call that reaches the breaker check closes the breaker, resets the      *)
(* failure count to 0 and issues an upstream attempt, no success having    *)
(* been recorded; from then on the breaker opens again only after 3        *)
(* further failed requests.                                                *)
(***************************************************************************)
C7_CooldownReset ==
    [][/\ \A p \in Procs :
             (Started(p) /\ ReachesBreaker(p) /\ BreakerOpen /\ ~WithinCooldown) =>
                 /\ ~MapGet(circuitBreaker', Endpoint).isOpen
                 /\ MapGet(circuitBreaker', Endpoint).failures = 0
                 /\ MapGet(circuitBreaker', Endpoint).lastFailure
                       = MapGet(circuitBreaker, Endpoint).lastFailure
                 /\ h'[p].pc = "fetching"
                 /\ h'[p].attempt = 1
                 /\ failLog'.consecutive = failLog.consecutive
       /\ \A b \in circuitBreaker' : b.isOpen => failLog'.sinceClosed >= 3]_vars

\* the breaker has opened, been reset by the cooldown and opened again after
\* three more failures, with no upstream success at all
C7_Witness ==
    /\ BreakerOpen
    /\ failLog.consecutive = 6
    /\ failLog.sinceClosed = 3
    /\ MapGet(circuitBreaker, Endpoint).failures = 3

(***************************************************************************)
(* C8: in every reachable state, interleaved handlers included, an open    *)
(* breaker has failures >= 3; the breaker goes from closed to open only in *)
(* the segment in which a request records its failure, the count reaching  *)
(* or exceeding 3 in that step.                                            *)
(***************************************************************************)
FailuresOf(cb) == IF MapHas(cb, Endpoint) THEN MapGet(cb, Endpoint).failures ELSE 0
IsOpen(cb) == MapHas(cb, Endpoint) /\ MapGet(cb, Endpoint).isOpen

C8_OpenOnlyAtThreshold ==
    [][/\ OneEntryPerKey(circuitBreaker')
       /\ IsOpen(circuitBreaker') => FailuresOf(circuitBreaker') >= 3
       /\ (~IsOpen(circuitBreaker) /\ IsOpen(circuitBreaker')) =>
             /\ \E p \in Procs : requestFails(p)
             /\ FailuresOf(circuitBreaker') = FailuresOf(circuitBreaker) + 1
             /\ FailuresOf(circuitBreaker') >= 3]_vars

\* the breaker is open with a fourth failure recorded by a handler that was
\* in flight when it opened, while the other handler has been refused
C8_Witness ==
    /\ IsOpen(circuitBreaker)
    /\ FailuresOf(circuitBreaker) = 4
    /\ h[1].pc = "done" /\ h[1].attempt = 3 /\ h[1].result = Nothing
    /\ h[2].pc = "done" /\ h[2].attempt = 0 /\ h[2].returned # Nothing

(***************************************************************************)
(* C9: a call that finds the breaker open within the cooldown does not     *)
(* throw; it returns a response with success = true, model = 'fallback'    *)
(* and an error field in metadata, shaped like a normal response.          *)
(***************************************************************************)
NormalResponse ==
    successResponse(attemptResult(OkReply, <<"H", "i">>), <<"H", "i">>, "conv-1",
                    Epoch, Epoch)

SameShape(r, normal) ==
    /\ DOMAIN r = DOMAIN normal
    /\ DOMAIN r.message = DOMAIN normal.message
    /\ r.message.role = normal.message.role
    /\ r.message.content # <<>>
    /\ (DOMAIN normal.metadata \ {"tokensUsed"}) \subseteq DOMAIN r.metadata

WaitOk(w, k) == w - (2 ^ (k - 1)) * 1000 >= 0 /\ w - (2 ^ (k - 1)) * 1000 < 500

RetryShape(me) ==
    /\ \A k \in 1 .. Len(me.waits) : WaitOk(me.waits[k], k)
    /\ Len(me.waits) = 2 => me.waits[2] >= me.waits[1]
    /\ me.pc = "fetching" => me.attempt \in 1 .. 3 /\ Len(me.waits) = me.attempt - 1
    /\ me.pc = "waiting" => me.attempt \in 1 .. 2 /\ Len(me.waits) = me.attempt
    /\ (me.pc = "done" /\ me.attempt > 0 /\ me.result = Nothing) =>
          /\ me.attempt = 3
          /\ Len(me.waits) = 2
          /\ me.returned # Nothing
          /\ The(me.returned).metadata.model = "fallback"
    /\ (me.pc = "done" /\ me.result # Nothing) =>
          /\ me.attempt \in 1 .. 3
          /\ Len(me.waits) = me.attempt - 1
          /\ attemptError(The(me.data)) = Nothing
          /\ The(me.result).completion = The(me.data).completion
          /\ The(me.returned).message.content = The(me.data).completion

C10_RetryBudget ==
    [][\A p \in Procs :
          /\ RetryShape(h'[p])
          /\ (h[p].pc = "waiting" /\ h'[p].pc = "fetching") =>
                /\ now >= h[p].wakeAt
                /\ h'[p].attempt = h[p].attempt + 1
          /\ (h[p].pc = "fetching" /\ h'[p].pc = "waiting") =>
                /\ h'[p].wakeAt = now + h'[p].waits[h[p].attempt]
                /\ h'[p].attempt = h[p].attempt
          /\ (h[p].pc = "fetching" /\ h'[p].pc = "done" /\ h'[p].result = Nothing) =>
                h[p].attempt = 3]_vars

\* three failed attempts, the first wait with the largest jitter and the
\* second with none
C10_Witness ==
    /\ h[1].pc = "done"
    /\ h[1].attempt = 3
    /\ h[1].result = Nothing
    /\ h[1].waits = <<1499, 2000>>
    /\ The(h[1].returned).metadata.model = "fallback"

\* the second attempt succeeded after one wait
C10_WitnessSuccess ==
    /\ h[1].pc = "done"
    /\ h[1].attempt = 2
    /\ h[1].result # Nothing
    /\ Len(h[1].waits) = 1

(***************************************************************************)
(* C11: whatever the upstream attempts end in (network rejection, abort    *)
(* after the timeout, non-2xx status, body without completion), the call   *)
(* returns a response and does not throw; when the third attempt fails too *)
(* the response has success = true, model = 'fallback' and metadata.error  *)
(* equal to the message of the last attempt's error.  A call throws only   *)
(* in its first segment, only when the conversation's window is full, and  *)
(* only the rate-limit error.                                              *)
(***************************************************************************)
FailureReasons ==
    { The(attemptError(reply)) :
          reply \in {r \in UpstreamReplies : attemptError(r) # Nothing} }

C11_OnlyRateLimitThrows ==
    [][\A p \in Procs :
          /\ Answered(p) =>
                /\ h'[p].threw = Nothing
                /\ h'[p].returned # Nothing
                /\ The(h'[p].returned).success = TRUE
          /\ requestFails(p) =>
                /\ h[p].attempt = 3
                /\ h'[p].lastError \in FailureReasons
                /\ The(h'[p].returned).metadata.model = "fallback"
                /\ The(h'[p].returned).metadata.error = h'[p].lastError
          /\ (Started(p) /\ ~WindowFull(h'[p].conversationId)) =>
                h'[p].threw = Nothing
          /\ h'[p].threw # Nothing =>
                /\ h'[p].threw = Some(RateLimitError)
                /\ h'[p].returned = Nothing
                /\ h'[p].attempt = 0
                /\ Started(p) \/ h[p] = h'[p]]_vars

\* the third attempt ran into the 30 s abort after two earlier failures, and
\* the call returned the fallback carrying the abort's message
C11_Witness ==
    /\ h[1].pc = "done"
    /\ h[1].attempt = 3
    /\ Len(h[1].waits) = 2
    /\ h[1].threw = Nothing
    /\ h[1].returned # Nothing
    /\ The(h[1].returned).success
    /\ The(h[1].returned).metadata.model = "fallback"
    /\ The(h[1].returned).metadata.error = <<"This", "operation", "was", "aborted">>

(***************************************************************************)
(* C12: the segment in which a call's third attempt fails increments the   *)
(* breaker's failure count by exactly 1, sets lastFailure to now, and      *)
(* leaves the breaker open exactly if it was open or the count has reached *)
(* 3; a failed attempt that is retried leaves the breaker and the cache    *)
(* alone.  If the call carries an idempotency key (one that                *)
(* `if (idempotencyKey)` accepts: the empty string counts as no key), the  *)
(* fallback response returned is stored under the key with                 *)
(* expiresAt = now + 5 minutes; otherwise the cache is not written.        *)
(***************************************************************************)
C12_ExhaustedFailure ==
    [][\A p \in Procs :
          /\ requestFails(p) =>
                LET before == MapGet(circuitBreaker, Endpoint)
                    after == MapGet(circuitBreaker', Endpoint)
                IN
                /\ h[p].attempt = 3
                /\ MapHas(circuitBreaker, Endpoint)
                /\ OneEntryPerKey(circuitBreaker')
                /\ after.failures = before.failures + 1
                /\ after.lastFailure = now
                /\ after.isOpen = (before.isOpen \/ after.failures >= 3)
                /\ Keyed(p) =>
                      /\ MapHas(requestCache', KeyOf(p))
                      /\ MapGet(requestCache', KeyOf(p)).data = The(h'[p].returned)
                      /\ MapGet(requestCache', KeyOf(p)).data.metadata.model = "fallback"
                      /\ MapGet(requestCache', KeyOf(p)).expiresAt = now + 5 * 60 * 1000
                      /\ MapDelete(requestCache', KeyOf(p))
                            = MapDelete(requestCache, KeyOf(p))
                /\ ~Keyed(p) => requestCache' = requestCache
          /\ (h[p].pc = "fetching" /\ h'[p].pc = "waiting") =>
                /\ circuitBreaker' = circuitBreaker
                /\ requestCache' = requestCache]_vars

\* the third failed request, carrying a key, has opened the breaker and its
\* fallback is in the cache for five minutes
C12_Witness ==
    /\ h[1].pc = "done"
    /\ h[1].attempt = 3
    /\ h[1].result = Nothing
    /\ h[1].idempotencyKey = Some("msg-1")
    /\ IsOpen(circuitBreaker)
    /\ FailuresOf(circuitBreaker) = 3
    /\ MapGet(circuitBreaker, Endpoint).lastFailure = now
    /\ MapHas(requestCache, "msg-1")
    /\ MapGet(requestCache, "msg-1").expiresAt = now + FallbackTtlMs
    /\ MapGet(requestCache, "msg-1").data = The(h[1].returned)

(***************************************************************************)
(* C13: the segment in which a call's upstream attempt succeeds sets the   *)
(* breaker's failure count to 0 and isOpen to false, also when the breaker *)
(* was opened by another call in the meantime, and returns a response with *)
(* success = true, content equal to the upstream completion, model equal   *)
(* to the live model id and cached = false.  If and only if the call       *)
(* carries an idempotency key, the response is stored under the key with   *)
(* expiresAt = now + 24 hours; otherwise the cache is not written.         *)
(***************************************************************************)
C13_UpstreamSuccess ==
    [][\A p \in Procs :
          requestSucceeds(p) =>
              LET r == The(h'[p].returned)
                  after == MapGet(circuitBreaker', Endpoint)
              IN
              /\ OneEntryPerKey(circuitBreaker')
              /\ MapHas(circuitBreaker', Endpoint)
              /\ after.failures = 0
              /\ after.isOpen = FALSE
              /\ h'[p].threw = Nothing
              /\ h'[p].returned # Nothing
              /\ r.success = TRUE
              /\ r.message.content = The(h'[p].data).completion
              /\ r.message.content # <<>>
              /\ r.metadata.model = "claude-3-5-sonnet"
              /\ r.metadata.cached = FALSE
              /\ Keyed(p) =>
                    /\ MapHas(requestCache', KeyOf(p))
                    /\ MapGet(requestCache', KeyOf(p)).data = r
                    /\ MapGet(requestCache', KeyOf(p)).expiresAt
                          = now + 24 * 60 * 60 * 1000
                    /\ MapDelete(requestCache', KeyOf(p))
                          = MapDelete(requestCache, KeyOf(p))
              /\ ~Keyed(p) =>
                    /\ requestCache' = requestCache
                    /\ timers' = timers]_vars

\* handler 1's keyed call succeeded after the breaker had opened and refused
\* handler 2: the breaker is closed again and the response is cached for 24 h
C13_Witness ==
    /\ h[1].pc = "done"
    /\ h[1].result # Nothing
    /\ h[1].idempotencyKey = Some("msg-1")
    /\ The(h[1].returned).message.content = <<"hi there">>
    /\ MapHas(requestCache, "msg-1")
    /\ MapGet(requestCache, "msg-1").data = The(h[1].returned)
    /\ MapGet(requestCache, "msg-1").expiresAt = now + SuccessTtlMs
    /\ h[2].pc = "done"
    /\ h[2].returned # Nothing
    /\ RefusedByBreaker(The(h[2].returned))
    /\ ~IsOpen(circuitBreaker)
    /\ FailuresOf(circuitBreaker) = 0
    /\ MapGet(circuitBreaker, Endpoint).lastFailure > Epoch

(***************************************************************************)
(* C14: the first segment of a call runs the rate-limit check, then the    *)
(* idempotency lookup, then the circuit-breaker check, and each only if    *)
(* the earlier ones let the call through: a rate-limited call touches      *)
(* neither the cache nor the breaker; a call answered from a live cache    *)
(* entry has been counted in the conversation's window and does not touch  *)
(* the breaker, whether it is open or not; a call refused by the breaker   *)
(* has been counted and has looked its key up; only a call that passes all *)
(* three issues an upstream attempt.  The cache is written only in the     *)
(* segment that follows the upstream call.                                 *)
(***************************************************************************)
CountedInWindow(p) ==
    LET c == h'[p].conversationId IN
    /\ MapHas(rateLimitMap', c)
    /\ MapGet(rateLimitMap', c).count =
          IF WindowStale(c) THEN 1 ELSE MapGet(rateLimitMap, c).count + 1

PipelineOrder(p) ==
    LET full == WindowFull(h'[p].conversationId)
        live == Keyed(p) /\ LiveEntry(KeyOf(p))
    IN
    /\ full =>
          /\ Rejected(p)
          /\ requestCache' = requestCache
          /\ circuitBreaker' = circuitBreaker
    /\ ~full => CountedInWindow(p)
    /\ (~full /\ live) =>
          /\ h'[p].pc = "done"
          /\ h'[p].attempt = 0
          /\ h'[p].returned = Some(MapGet(requestCache, KeyOf(p)).data)
          /\ circuitBreaker' = circuitBreaker
    /\ (~full /\ ~live /\ BreakerBlocks) =>
          /\ BreakerFallback(p)
          /\ Keyed(p) => ~MapHas(requestCache', KeyOf(p))
    /\ (~full /\ ~live /\ ~BreakerBlocks) =>
          /\ h'[p].pc = "fetching"
          /\ h'[p].attempt = 1
          /\ Keyed(p) => ~MapHas(requestCache', KeyOf(p))

C14_PipelineOrder ==
    [][/\ \A p \in Procs : Started(p) => PipelineOrder(p)
       /\ \A e \in requestCache' :
             e \notin requestCache =>
                 \E p \in Procs : Answered(p) /\ Keyed(p) /\ KeyOf(p) = e.key]_vars

\* with the breaker open and inside its cooldown, the fourth call of the
\* window was answered from the live cache entry of its key
C14_Witness ==
    /\ h[1].pc = "done"
    /\ h[1].attempt = 0
    /\ h[1].idempotencyKey = Some("msg-1")
    /\ LiveEntry("msg-1")
    /\ h[1].returned = Some(MapGet(requestCache, "msg-1").data)
    /\ BreakerBlocks
    /\ MapGet(rateLimitMap, "conv-1").count = 4

(***************************************************************************)
(* C15 as stated: of two calls carrying the same idempotency key, also     *)
(* when the second starts while the first is still in its upstream call or *)
(* in a backoff, at most one is executed upstream, and both callers        *)
(* receive the same response.                                              *)
(***************************************************************************)
SameKey(p, q) ==
    /\ p # q
    /\ h[p].pc # "idle" /\ h[q].pc # "idle"
    /\ Truthy(h[p].idempotencyKey)
    /\ h[p].idempotencyKey = h[q].idempotencyKey

C15_SameKeyExecutedOnce ==
    \A p \in Procs, q \in Procs :
        SameKey(p, q) =>
            /\ ~(h[p].attempt > 0 /\ h[q].attempt > 0)
            /\ (h[p].returned # Nothing /\ h[q].returned # Nothing) =>
                  h[p].returned = h[q].returned

(***************************************************************************)
(* History of the client: the visible list and the persisted queue at the  *)
(* moment a sendMessage invocation is made.                                *)
(***************************************************************************)
logSend(i) ==
    sendLog' = [sendLog EXCEPT ![i] = [messages |-> store.messages,
                                       queue |-> storage]]
forgetSend(i) ==
    sendLog' = [sendLog EXCEPT ![i] = [messages |-> <<>>, queue |-> <<>>]]

\* a response, a response with success = false, a network failure and the
\* server's rate-limit error
SendReplies ==
    {reply \in ClientReplies :
        \/ reply.kind = "result"
        \/ reply.message \in {<<"Failed", "to", "fetch">>,
                              <<"Rate", "limit", "exceeded.">>}}

(***************************************************************************)
(* SpecSend: sendMessage invocations made from the last render, a server   *)
(* that answers, fails or cannot be reached, and the loss of connectivity. *)
(* No drain runs: once offline the client stays offline.  AsyncStorage     *)
(* accepts every write.                                                    *)
(***************************************************************************)
NextSend ==
    \/ \E i \in Sends, content \in Contents :
          /\ Len(store.messages) < MaxVisible
          /\ sendMessage(i, content)
          /\ logSend(i)
          /\ UNCHANGED server
    \/ \E i \in Sends, reply \in SendReplies :
          sendReplied(i, reply) /\ UNCHANGED sendLog /\ UNCHANGED server
    \/ \E i \in Sends : revealTimerFires(i) /\ UNCHANGED sendLog /\ UNCHANGED server
    \/ \E i \in Sends : sendQueueSaved(i, TRUE) /\ UNCHANGED sendLog /\ UNCHANGED server
    \/ \E i \in Sends : settleSend(i) /\ forgetSend(i) /\ UNCHANGED server
    \/ \E rerun \in BOOLEAN : render(rerun) /\ UNCHANGED sendLog /\ UNCHANGED server
    \/ handleOffline /\ UNCHANGED sendLog /\ UNCHANGED server

SpecSend == Init /\ [][NextSend]_vars

\* the server accepts every submission of a drain
DrainReplies == {reply \in ClientReplies : reply.kind = "result" /\ reply.success}

(***************************************************************************)
(* SpecClient: the chat context on the web, with a user who waits for each *)
(* sendMessage call, and each processOfflineQueue call, to end before      *)
(* making the next one (the interleavings of two sendMessage invocations   *)
(* are SpecSend's, those of two drains SpecDrain's): a server that         *)
(* answers a send, fails it or cannot be reached, and accepts every        *)
(* submission of a drain; connectivity events, drains of the offline       *)
(* queue, and reloads of the history.  The timers the handlers set do not  *)
(* fire.  React renders before the next event is handled.  AsyncStorage    *)
(* accepts every write.                                                    *)
(***************************************************************************)
NextClient ==
    \/ \E content \in {<<" ", " ">>, <<"H", "i">>} :
          /\ view = store
          /\ Len(store.messages) < MaxVisible
          /\ Len(store.offlineQueue) < MaxQueued
          /\ sendMessage(1, content)
          /\ logSend(1)
          /\ UNCHANGED server
    \/ \E reply \in SendReplies :
          /\ view = store
          /\ sendReplied(1, reply)
          /\ UNCHANGED sendLog
          /\ UNCHANGED server
    \/ view = store /\ revealTimerFires(1) /\ UNCHANGED sendLog /\ UNCHANGED server
    \/ view = store /\ sendQueueSaved(1, TRUE) /\ UNCHANGED sendLog /\ UNCHANGED server
    \/ view = store /\ settleSend(1) /\ forgetSend(1) /\ UNCHANGED server
    \/ view = store /\ processOfflineQueue(1) /\ UNCHANGED sendLog /\ UNCHANGED server
    \/ \E reply \in DrainReplies :
          /\ view = store
          /\ Len(store.messages) < MaxVisible
          /\ drainReplied(1, reply)
          /\ UNCHANGED sendLog
          /\ UNCHANGED server
    \/ view = store /\ drainQueueSaved(1, TRUE) /\ UNCHANGED sendLog /\ UNCHANGED server
    \/ view = store /\ settleDrain(1) /\ UNCHANGED sendLog /\ UNCHANGED server
    \/ \E rerun \in BOOLEAN : render(rerun) /\ UNCHANGED sendLog /\ UNCHANGED server
    \/ view = store /\ handleOnline /\ UNCHANGED sendLog /\ UNCHANGED server
    \/ view = store /\ handleOffline /\ UNCHANGED sendLog /\ UNCHANGED server
    \/ \E loaded \in Histories :
          /\ view = store
          /\ historyLoaded(loaded)
          /\ UNCHANGED sendLog
          /\ UNCHANGED server

SpecClient == Init /\ [][NextClient]_vars

(***************************************************************************)
(* Vocabulary of the client properties.                                    *)
(***************************************************************************)
\* this step is the invocation of sendMessage number i
Invoked(i) == sends[i].pc = "idle" /\ sends'[i].pc # "idle"
\* invocation i has passed the entry guard and has not ended
InFlight(i) == sends[i].pc \in {"calling", "revealing", "saving"}
\* this step is the one in which invocation i ends
Ended(i) == sends[i].pc # "done" /\ sends'[i].pc = "done"
\* the invocation returned at the entry guard
Ignored(i) == sends'[i].pc = "done" /\ sends'[i].outcome = "ignored"
\* the mutation of invocation i was called
CalledServer(i) == sends'[i].request # Nothing

(***************************************************************************)
(* C16 as stated: at most one sendMessage invocation is past the entry     *)
(* guard at any time; an invocation made while another has not ended       *)
(* returns at the guard and changes neither the state (message list,       *)
(* queue, streaming state) nor the stored queue, and calls no server; an   *)
(* invocation with blank text does the same.                               *)
(***************************************************************************)
C16_OneSendInFlight ==
    [][/\ \A i \in Sends :
             Invoked(i) =>
                 /\ (\E j \in Sends \ {i} : InFlight(j)) => Ignored(i)
                 /\ Ignored(i) =>
                       /\ store' = store
                       /\ storage' = storage
                       /\ ~CalledServer(i)
                 /\ ~Ignored(i) => The(sends'[i].userMessage).content # <<>>
       /\ Cardinality({i \in Sends : InFlight(i)'}) <= 1]_vars

\* invocation i ends in this step having queued its message while offline
QueuedOffline(i) ==
    /\ Ended(i)
    /\ sends'[i].outcome = "queued"
    /\ sends'[i].caught = Nothing
\* ... having queued its message after a network failure of the server call
QueuedAfterFailure(i) ==
    /\ Ended(i)
    /\ sends'[i].outcome = "queued"
    /\ sends'[i].caught # Nothing
\* m is in the list
Shows(list, m) == \E k \in 1 .. Len(list) : list[k] = m

(***************************************************************************)
(* C17 as stated: an invocation with non-blank text made with              *)
(* connectionStatus = 'offline' does not call the server; when it ends,    *)
(* the stored queue is the stored queue as it was with the user message    *)
(* appended, the offlineQueue state equals it, the user message is in the  *)
(* visible list, and no error is raised.                                   *)
(***************************************************************************)
C17_QueuedWhileOffline ==
    [][\A i \in Sends :
          /\ (Invoked(i) /\ ~Ignored(i) /\ view.connectionStatus = "offline") =>
                /\ sends'[i].pc = "saving"
                /\ ~CalledServer(i)
                /\ Shows(store'.messages, The(sends'[i].userMessage))
          /\ QueuedOffline(i) =>
                /\ ~CalledServer(i)
                /\ sends'[i].raised = Nothing
                /\ storage' = Append(storage, The(sends[i].userMessage))
                /\ store'.offlineQueue = storage'
                /\ Shows(store'.messages, The(sends[i].userMessage))]_vars

\* in this step the server call of invocation i fails with a network failure
NetworkFailure(i) ==
    /\ sends[i].pc = "calling"
    /\ sends'[i].pc = "saving"

(***************************************************************************)
(* C18 as stated: when the server call of an invocation fails with a       *)
(* network failure, connectionStatus becomes 'offline' and the user        *)
(* message is still in the visible list; when the invocation ends, the     *)
(* stored queue is the stored queue as it was with the user message        *)
(* appended, and the user message is still in the visible list.            *)
(***************************************************************************)
C18_NetworkFailureQueues ==
    [][\A i \in Sends :
          /\ NetworkFailure(i) =>
                /\ isNetworkError(The(sends'[i].caught))
                /\ store'.connectionStatus = "offline"
                /\ Shows(store'.messages, The(sends[i].userMessage))
          /\ QueuedAfterFailure(i) =>
                /\ storage' = Append(storage, The(sends[i].userMessage))
                /\ Shows(store'.messages, The(sends[i].userMessage))]_vars

(***************************************************************************)
(* C19 as stated: an invocation whose server call failed with a network    *)
(* failure and whose message has been written to the offline queue ends    *)
(* without raising an error to its caller.                                 *)
(***************************************************************************)
C19_QueuedWithoutError ==
    [][\A i \in Sends :
          QueuedAfterFailure(i) =>
              /\ isNetworkError(The(sends[i].caught))
              /\ sends'[i].raised = Nothing]_vars

\* invocation i ends in this step by rolling back after a failure that is not
\* a network failure
RolledBack(i) == Ended(i) /\ sends'[i].outcome = "rolledBack"

\* the list without the last occurrence of m (the list itself if m is not in it)
RECURSIVE WithoutLast(_, _)
WithoutLast(list, m) ==
    IF list = <<>> THEN <<>>
    ELSE IF list[Len(list)] = m THEN SubSeq(list, 1, Len(list) - 1)
    ELSE IF Shows(list, m)
         THEN Append(WithoutLast(SubSeq(list, 1, Len(list) - 1), m), list[Len(list)])
         ELSE list

(***************************************************************************)
(* C20 as stated: when an invocation fails for a reason that is not a      *)
(* network failure, the rollback removes the user message of the           *)
(* invocation from the visible list and no other message, whatever was     *)
(* done to the list while the call was pending (so that, if nothing was,   *)
(* the list is the list from before the call); the offline queue, in the   *)
(* state and in storage, is unchanged, and an error is raised.             *)
(***************************************************************************)
C20_RollbackRemovesOwnMessage ==
    [][\A i \in Sends :
          RolledBack(i) =>
              /\ ~isNetworkError(The(sends'[i].caught))
              /\ store'.messages = WithoutLast(store.messages, The(sends[i].userMessage))
              /\ (store.messages = Append(sendLog[i].messages, The(sends[i].userMessage))) =>
                     store'.messages = sendLog[i].messages
              /\ storage' = storage
              /\ storage = sendLog[i].queue
              /\ store'.offlineQueue = store.offlineQueue
              /\ sends'[i].raised # Nothing]_vars

\* in this step invocation i sets the streaming buffer to the next prefix
Reveals(i) ==
    /\ sends'[i].pc = "revealing"
    /\ sends'[i].shown # sends[i].shown
\* in this step invocation i appends the assistant message and ends
Committed(i) == Ended(i) /\ sends'[i].outcome = "committed"
\* the words of the response invocation i received
ResponseWords(i) == The(sends'[i].result).content

(***************************************************************************)
(* C21 as stated: after a successful response the streaming buffer is set  *)
(* to the first word, then to the first two words, and so on, one word     *)
(* more in each step and each word at its position in the response; the    *)
(* assistant message is appended to the visible list in one step only,     *)
(* taken when the whole text has been shown, and that step clears the      *)
(* buffer and sets isStreaming to false.  Nothing else adds an assistant   *)
(* message to the list.                                                    *)
(***************************************************************************)
C21_RevealThenCommit ==
    [][/\ \A i \in Sends :
          /\ Reveals(i) =>
                /\ sends'[i].shown = sends[i].shown + 1
                /\ sends'[i].shown <= Len(ResponseWords(i))
                /\ store'.streamingMessage =
                       SubSeq(ResponseWords(i), 1, sends'[i].shown)
                /\ store'.messages = store.messages
          /\ Committed(i) =>
                /\ sends[i].pc = "revealing"
                /\ sends[i].shown = Len(ResponseWords(i))
                /\ store'.messages = Append(store.messages, The(sends[i].result))
                /\ ResponseWords(i) = The(sends[i].result).content
                /\ store'.streamingMessage = <<>>
                /\ ~store'.isStreaming
       /\ Len(store'.messages) > Len(store.messages) =>
             \E i \in Sends : Committed(i) \/ (Invoked(i) /\ ~Ignored(i))]_vars

\* a response of two words has been revealed and committed
C21_Witness ==
    \E i \in Sends :
        /\ sends[i].pc = "done"
        /\ sends[i].outcome = "committed"
        /\ sends[i].shown = 2
        /\ Shows(store.messages, The(sends[i].result))
        /\ store.streamingMessage = <<>>

(***************************************************************************)
(* SpecDrain: the provider is mounted over a queue left in storage by an   *)
(* earlier session ('Load offline queue on mount'), connectionStatus is    *)
(* 'online' and stays so; processOfflineQueue is called directly (while at *)
(* most one retry timer is pending) and by its 5 s retry timers, two       *)
(* invocations at a time; the server accepts a submission, answers it with *)
(* success = false, or cannot be reached.  No message is sent meanwhile.   *)
(* React renders before the next event is handled.  AsyncStorage accepts   *)
(* every write.                                                            *)
(***************************************************************************)
QueuedMessage(k) == [role |-> "user", content |-> <<"H", "i">>, timestamp |-> k]

StoredQueues == { [k \in 1 .. n |-> QueuedMessage(k)] : n \in 0 .. MaxQueued }

\* a response, a response with success = false, and a network failure
DrainOutcomes ==
    {reply \in ClientReplies :
        \/ reply.kind = "result"
        \/ reply.message = <<"Failed", "to", "fetch">>}

InitDrain ==
    \E queue \in StoredQueues :
        /\ now = Epoch
        /\ ticks = 0
        /\ rateLimitMap = {}
        /\ circuitBreaker = {}
        /\ requestCache = {}
        /\ timers = {}
        /\ h = [p \in Procs |-> IdleHandler]
        /\ passLog = [c \in ConversationIds |-> <<>>]
        /\ failLog = [consecutive |-> 0, sinceClosed |-> 0]
        /\ store = [InitialState EXCEPT !.offlineQueue = queue]
        /\ view = [InitialState EXCEPT !.offlineQueue = queue]
        /\ storage = queue
        /\ sends = [i \in Sends |-> IdleSend]
        /\ drains = [d \in Drains |-> IdleDrain]
        /\ reconnectTimer = Nothing
        /\ retryTimers = {}
        /\ sendLog = [i \in Sends |-> [messages |-> <<>>, queue |-> <<>>]]

NextDrain ==
    \/ \E d \in Drains :
          /\ view = store
          /\ Cardinality(retryTimers) <= 1
          /\ processOfflineQueue(d)
          /\ UNCHANGED sendLog
          /\ UNCHANGED server
    \/ \E d \in Drains, reply \in DrainOutcomes :
          /\ view = store
          /\ Len(store.messages) < MaxDelivered
          /\ drainReplied(d, reply)
          /\ UNCHANGED sendLog
          /\ UNCHANGED server
    \/ \E d \in Drains :
          /\ view = store
          /\ drainQueueSaved(d, TRUE)
          /\ UNCHANGED sendLog
          /\ UNCHANGED server
    \/ \E d \in Drains, tm \in retryTimers :
          /\ view = store
          /\ retryTimerFires(d, tm)
          /\ UNCHANGED sendLog
          /\ UNCHANGED server
    \/ \E d \in Drains :
          /\ view = store
          /\ settleDrain(d)
          /\ UNCHANGED sendLog
          /\ UNCHANGED server
    \/ \E rerun \in BOOLEAN : render(rerun) /\ UNCHANGED sendLog /\ UNCHANGED server
    \/ \E t \in ClientInstants :
          /\ view = store
          /\ ticks < ClientTicks
          /\ tick(t)
          /\ UNCHANGED <<client, server>>

SpecDrain == InitDrain /\ [][NextDrain]_vars

(***************************************************************************)
(* Vocabulary of the drain properties.                                     *)
(***************************************************************************)
\* the queue drain d works on
QueueOf(d) == drains'[d].cap.offlineQueue
\* in this step drain d submits an entry to the server
Submits(d) == drains'[d].submitted # drains[d].submitted /\ drains'[d].pc = "calling"
\* in this step the submission of the current entry of drain d throws
SubmissionFails(d) ==
    /\ drains[d].pc = "calling"
    /\ drains'[d].caught # Nothing
\* in this step drain d writes the remaining queue and ends
DrainEnds(d) == drains[d].pc = "saving" /\ drains'[d].pc = "done"
\* s ends with t
EndsWith(s, t) ==
    /\ Len(t) <= Len(s)
    /\ SubSeq(s, Len(s) - Len(t) + 1, Len(s)) = t

(***************************************************************************)
(* C22 as stated: a drain submits the entries of its queue one by one from *)
(* the first, in queue order; when the submission of entry number i        *)
(* throws, the drain submits nothing more, and the entries from number i   *)
(* on are the end of the queue it writes back, in their order.             *)
(***************************************************************************)
C22_DrainInOrder ==
    [][\A d \in Drains :
          /\ Submits(d) =>
                /\ Len(drains'[d].submitted) = Len(drains[d].submitted) + 1
                /\ drains'[d].submitted =
                       SubSeq(QueueOf(d), 1, Len(drains'[d].submitted))
                /\ drains'[d].caught = Nothing
          /\ SubmissionFails(d) =>
                /\ drains'[d].pc = "saving"
                /\ drains'[d].submitted = drains[d].submitted
                /\ EndsWith(drains'[d].remainingQueue,
                            SubSeq(QueueOf(d), Len(drains[d].submitted),
                                   Len(QueueOf(d))))
          /\ (DrainEnds(d) /\ drains[d].caught # Nothing) =>
                /\ drains'[d].submitted = drains[d].submitted
                /\ storage' = drains[d].remainingQueue
                /\ EndsWith(storage',
                            SubSeq(QueueOf(d), Len(drains[d].submitted),
                                   Len(QueueOf(d))))]_vars

\* a drain of two entries delivered the first, failed on the second and wrote
\* the second back
C22_Witness ==
    \E d \in Drains :
        /\ drains[d].pc = "done"
        /\ drains[d].caught # Nothing
        /\ Len(drains[d].cap.offlineQueue) = 2
        /\ Len(drains[d].submitted) = 2
        /\ Len(drains[d].processedMessages) = 2
        /\ storage = <<drains[d].cap.offlineQueue[2]>>

\* the entries of its queue that drain d has delivered: the server answered
\* the submission with a successful response
Delivered(d) ==
    { drains[d].processedMessages[k] :
        k \in { j \in 1 .. Len(drains[d].processedMessages) : j % 2 = 1 } }

\* the list without the elements that are in the set
RECURSIVE Without(_, _)
Without(list, set) ==
    IF list = <<>> THEN <<>>
    ELSE IF Head(list) \in set THEN Without(Tail(list), set)
    ELSE <<Head(list)>> \o Without(Tail(list), set)

(***************************************************************************)
(* C23 as stated: when a drain ends, the stored queue is the queue the     *)
(* drain started from without the entries it delivered, every other entry  *)
(* kept, whatever the outcome of each submission was.                      *)
(***************************************************************************)
C23_RemovesExactlyDelivered ==
    [][\A d \in Drains :
          DrainEnds(d) =>
              storage' = Without(drains[d].cap.offlineQueue, Delivered(d))]_vars

\* the elements of a list
Elements(list) == { list[k] : k \in 1 .. Len(list) }

(***************************************************************************)
(* C24 as stated: a message leaves the stored queue only in the step in    *)
(* which a drain that delivered it writes the remaining queue back; no     *)
(* write of a sendMessage invocation or of another drain removes it.       *)
(***************************************************************************)
C24_NoEnqueueLost ==
    [][\A message \in Elements(storage) \ Elements(storage') :
          \E d \in Drains : DrainEnds(d) /\ message \in Delivered(d)]_vars

\* drain d has set connectionStatus to 'reconnecting' and has not yet written
\* the remaining queue
Draining(d) == drains[d].pc \in {"calling", "saving"}

(***************************************************************************)
(* C25 as stated: at no time are two processOfflineQueue invocations       *)
(* between setting connectionStatus to 'reconnecting' and writing the      *)
(* remaining queue.                                                        *)
(***************************************************************************)
C25_OneDrainAtATime == Cardinality({ d \in Drains : Draining(d) }) <= 1

\* in this step drain d is started by the retry timer tm
RetryStarts(d, tm) ==
    /\ tm \in retryTimers
    /\ tm \notin retryTimers'
    /\ drains[d].pc = "idle"
    /\ drains'[d].pc # "idle"

(***************************************************************************)
(* C26 as stated (the scheduling and the work of the retry): a drain that  *)
(* stops on a thrown submission and writes back a non-empty queue sets a   *)
(* timer for 5 seconds later; the drain that timer starts works on the     *)
(* remaining entries, that is on the stored queue, and submits its first   *)
(* entry.                                                                  *)
(***************************************************************************)
C26_RetryDrainsRemaining ==
    [][\A d \in Drains :
          /\ (DrainEnds(d) /\ drains[d].caught # Nothing /\ storage' # <<>>) =>
                \E tm \in retryTimers' \ retryTimers : tm.fireAt = now + 5000
          /\ \A tm \in retryTimers :
                RetryStarts(d, tm) =>
                    /\ now >= tm.fireAt
                    /\ drains'[d].cap.offlineQueue = storage
                    /\ drains'[d].pc = "calling"]_vars

\* this step is the render that follows a change of connectionStatus to
\* 'online': the connectivity effect is cleaned up and run again
RendersOnline ==
    /\ view' = store
    /\ view.connectionStatus # "online"
    /\ store.connectionStatus = "online"

(***************************************************************************)
(* C27 as stated (the scheduling): when the 'online' event changes         *)
(* connectionStatus from 'offline' to 'online' while the queue is not      *)
(* empty, the debounced timer of a drain is pending after the step; and    *)
(* the render, and re-run of the connectivity effect, that this change of  *)
(* connectionStatus triggers leaves the pending timer in place.            *)
(***************************************************************************)
C27_ReconnectTimerSurvives ==
    [][/\ ( /\ store.connectionStatus = "offline"
            /\ store'.connectionStatus = "online"
            /\ store.offlineQueue # <<>>
            /\ \A d \in Drains : ~DrainEnds(d) ) =>
              /\ reconnectTimer' # Nothing
              /\ The(reconnectTimer').fireAt = now + 1000
       /\ ( /\ RendersOnline
            /\ reconnectTimer # Nothing
            /\ store.offlineQueue # <<>> ) =>
              reconnectTimer' = reconnectTimer]_vars

(***************************************************************************)
(* SpecReconnect: the provider is mounted on the web over a queue left in  *)
(* storage; the window fires 'online' and 'offline' events, and            *)
(* processOfflineQueue is called directly, by the debounced timer of       *)
(* handleOnline and by its own retry timers, one invocation at a time; the *)
(* server accepts a submission or cannot be reached.  React renders before *)
(* the next event is handled.  AsyncStorage accepts every write.           *)
(***************************************************************************)
ReconnectOutcomes ==
    {reply \in ClientReplies :
        \/ reply.kind = "result" /\ reply.success
        \/ reply.message = <<"Failed", "to", "fetch">>}

NextReconnect ==
    \/ /\ view = store
       /\ retryTimers = {}
       /\ processOfflineQueue(1)
       /\ UNCHANGED sendLog
       /\ UNCHANGED server
    \/ \E reply \in ReconnectOutcomes :
          /\ view = store
          /\ Len(store.messages) < MaxDelivered
          /\ drainReplied(1, reply)
          /\ UNCHANGED sendLog
          /\ UNCHANGED server
    \/ view = store /\ drainQueueSaved(1, TRUE) /\ UNCHANGED sendLog /\ UNCHANGED server
    \/ \E tm \in retryTimers :
          /\ view = store
          /\ retryTimerFires(1, tm)
          /\ UNCHANGED sendLog
          /\ UNCHANGED server
    \/ view = store /\ reconnectTimerFires(1) /\ UNCHANGED sendLog /\ UNCHANGED server
    \/ view = store /\ settleDrain(1) /\ UNCHANGED sendLog /\ UNCHANGED server
    \/ \E rerun \in BOOLEAN : render(rerun) /\ UNCHANGED sendLog /\ UNCHANGED server
    \/ view = store /\ handleOnline /\ UNCHANGED sendLog /\ UNCHANGED server
    \/ view = store /\ handleOffline /\ UNCHANGED sendLog /\ UNCHANGED server
    \/ \E t \in ClientInstants :
          /\ view = store
          /\ ticks < ClientTicks
          /\ tick(t)
          /\ UNCHANGED <<client, server>>

SpecReconnect == InitDrain /\ [][NextReconnect]_vars

(***************************************************************************)
(* C28 as stated: after a step that changes connectionStatus to 'offline'  *)
(* no drain timer is pending, neither the debounced reconnect timer nor a  *)
(* 5 s retry timer; and no drain is started, and submits its first entry   *)
(* to the server, while connectionStatus is 'offline'.                     *)
(***************************************************************************)
C28_OfflineCancelsTimers ==
    [][/\ (store.connectionStatus # "offline" /\ store'.connectionStatus = "offline") =>
             /\ reconnectTimer' = Nothing
             /\ retryTimers' = {}
       /\ \A d \in Drains :
             (drains[d].pc = "idle" /\ Submits(d)) =>
                 store.connectionStatus # "offline"]_vars

(***************************************************************************)
(* The message array callAIWithRetry posts upstream.                       *)
(***************************************************************************)
ContextSize == 8

\* Array.slice(-n)
sliceLast(s, n) == IF Len(s) <= n THEN s ELSE SubSeq(s, Len(s) - n + 1, Len(s))

\* role and content of each message: what the upstream reads of an entry
roleAndContent(list) ==
    [k \in 1 .. Len(list) |-> [role |-> list[k].role, content |-> list[k].content]]

SystemPreamble == [role |-> "system", content |-> <<"You", "are", "LIMNUS">>]

\* body.messages of the fetch in callAIWithRetry(message, messages)
upstreamMessages(message, messages) ==
    <<SystemPreamble>>
        \o roleAndContent(sliceLast(messages, ContextSize))
        \o <<[role |-> "user", content |-> message]>>

(***************************************************************************)
(* SpecPrompt: a conversation whose history has been loaded is selected;   *)
(* the user sends messages one at a time, online; the server answers, or   *)
(* fails, or cannot be reached.  React renders before the next event is    *)
(* handled.  AsyncStorage accepts every write.                             *)
(***************************************************************************)
HistoryMessage(k) ==
    [role |-> IF k % 2 = 1 THEN "user" ELSE "assistant",
     content |-> <<"earlier">>, timestamp |-> k]

LoadedHistories == { [k \in 1 .. n |-> HistoryMessage(k)] : n \in 0 .. MaxHistory }

InitPrompt ==
    \E loaded \in LoadedHistories :
        /\ now = Epoch
        /\ ticks = 0
        /\ rateLimitMap = {}
        /\ circuitBreaker = {}
        /\ requestCache = {}
        /\ timers = {}
        /\ h = [p \in Procs |-> IdleHandler]
        /\ passLog = [c \in ConversationIds |-> <<>>]
        /\ failLog = [consecutive |-> 0, sinceClosed |-> 0]
        /\ store = [InitialState EXCEPT !.currentConversationId = Some(<<"conv", 1>>),
                                        !.messages = loaded]
        /\ view = [InitialState EXCEPT !.currentConversationId = Some(<<"conv", 1>>),
                                       !.messages = loaded]
        /\ storage = <<>>
        /\ sends = [i \in Sends |-> IdleSend]
        /\ drains = [d \in Drains |-> IdleDrain]
        /\ reconnectTimer = Nothing
        /\ retryTimers = {}
        /\ sendLog = [i \in Sends |-> [messages |-> <<>>, queue |-> <<>>]]

NextPrompt ==
    \/ \E content \in Contents :
          /\ view = store
          /\ store.connectionStatus = "online"
          /\ Len(store.messages) <= MaxHistory
          /\ sendMessage(1, content)
          /\ logSend(1)
          /\ UNCHANGED server
    \/ \E reply \in SendReplies :
          /\ view = store
          /\ sendReplied(1, reply)
          /\ UNCHANGED sendLog
          /\ UNCHANGED server
    \/ view = store /\ revealTimerFires(1) /\ UNCHANGED sendLog /\ UNCHANGED server
    \/ view = store /\ sendQueueSaved(1, TRUE) /\ UNCHANGED sendLog /\ UNCHANGED server
    \/ view = store /\ settleSend(1) /\ forgetSend(1) /\ UNCHANGED server
    \/ \E rerun \in BOOLEAN : render(rerun) /\ UNCHANGED sendLog /\ UNCHANGED server

SpecPrompt == InitPrompt /\ [][NextPrompt]_vars

\* invocation i has called the server: a live send
LiveSend(i) == sends[i].request # Nothing

\* the message array the server posts upstream for the call of invocation i
PostedFor(i) ==
    upstreamMessages(The(sends[i].request).message, The(sends[i].request).messages)

\* the number of entries of the list with this role and content
Occurrences(list, role, content) ==
    Cardinality({ k \in 1 .. Len(list) :
                    list[k].role = role /\ list[k].content = content })

(***************************************************************************)
(* C29 as stated: for every live send the posted array is the system       *)
(* preamble, then the last 8 (or fewer, if there are fewer) of the         *)
(* messages that were in the conversation before the user message of this  *)
(* send, then that user message; it has at most 10 elements, and the user  *)
(* message of this send is in it once, as its last element.                *)
(***************************************************************************)
C29_PromptShape ==
    \A i \in Sends :
        LiveSend(i) =>
            LET userMessage == The(sends[i].userMessage)
                posted == PostedFor(i)
            IN /\ Len(posted) <= 10
               /\ posted[1] = SystemPreamble
               /\ posted[Len(posted)] =
                      [role |-> "user", content |-> userMessage.content]
               /\ Occurrences(posted, "user", userMessage.content) = 1
               /\ posted = <<SystemPreamble>>
                              \o roleAndContent(sliceLast(sendLog[i].messages, 8))
                              \o <<[role |-> "user", content |-> userMessage.content]>>

\* the entry drain d submits in this step
SubmittedEntry(d) == drains'[d].submitted[Len(drains'[d].submitted)]
\* in this step drain d appends the assistant reply to its current entry
AppendsReply(d) ==
    Len(drains'[d].processedMessages) > Len(drains[d].processedMessages)

(***************************************************************************)
(* C30 as stated, where the server accepts a submission or cannot be       *)
(* reached, so that an entry leaves the stored queue only by having been   *)
(* delivered: a drain submits only entries that are in the stored queue,   *)
(* and appends the assistant reply only of an entry that is in the stored  *)
(* queue, that is of an entry not delivered by an earlier drain.           *)
(***************************************************************************)
C30_DeliveredOnce ==
    [][\A d \in Drains :
          /\ Submits(d) => SubmittedEntry(d) \in Elements(storage)
          /\ AppendsReply(d) =>
                /\ drains[d].cap.offlineQueue[drains[d].index] \in Elements(storage)
                /\ Len(store'.messages) = Len(store.messages) + 1]_vars

(***************************************************************************)
(* C31 as stated: when a drain finishes while connectionStatus is          *)
(* 'offline', that is after a window 'offline' event that arrived during   *)
(* the drain and was not followed by an 'online' event, connectionStatus   *)
(* is still 'offline' afterwards.                                          *)
(***************************************************************************)
C31_DrainKeepsOffline ==
    [][\A d \in Drains :
          (DrainEnds(d) /\ store.connectionStatus = "offline")
              => store'.connectionStatus = "offline"]_vars

\* handler p's call starts after the cooldown of the open breaker has run out
AfterCooldown == BreakerOpen /\ ~BreakerBlocks

(***************************************************************************)
(* C32: a call answered by the breaker-open fallback leaves the circuit    *)
(* breaker (failure count, lastFailure, open flag) as it was, adds no      *)
(* entry to the idempotency cache and sets no eviction timer, with or      *)
(* without idempotency key; and a call with a key that has no live entry,  *)
(* made after the cooldown has run out, closes the breaker and makes an    *)
(* upstream attempt.                                                       *)
(***************************************************************************)
C32_FallbackTouchesNothing ==
    [][\A p \in Procs :
          /\ (Started(p) /\ BreakerFallback(p)) =>
                /\ circuitBreaker' = circuitBreaker
                /\ requestCache' \subseteq requestCache
                /\ timers' = timers
                /\ Keyed(p) => ~MapHas(requestCache', KeyOf(p))
          /\ (Started(p) /\ Keyed(p) /\ ReachesBreaker(p) /\ AfterCooldown) =>
                /\ h'[p].pc = "fetching"
                /\ h'[p].attempt = 1
                /\ ~IsOpen(circuitBreaker')]_vars

\* a call with an idempotency key was answered by the breaker-open fallback
\* some time after the last failure: the breaker is as that failure left it
\* and the cache holds nothing for the key
C32_Witness ==
    /\ h[1].pc = "done"
    /\ Truthy(h[1].idempotencyKey)
    /\ h[1].returned # Nothing
    /\ RefusedByBreaker(The(h[1].returned))
    /\ ~MapHas(requestCache, The(h[1].idempotencyKey))
    /\ IsOpen(circuitBreaker)
    /\ FailuresOf(circuitBreaker) = FailureThreshold
    /\ MapGet(circuitBreaker, Endpoint).lastFailure < h[1].startTime

(***************************************************************************)
(* SpecEvict: interleaved handlers of one conversation, all with the same  *)
(* idempotency key, an upstream that answers or fails, the eviction        *)
(* timers; a few requests, fewer than the rate limit.  The clock moves     *)
(* around the backoff timers and the cache deadlines.                      *)
(***************************************************************************)
NextEvict ==
    \/ \E p \in Procs :
          /\ \A e \in rateLimitMap : e.count < EvictCalls
          /\ processMessage(p, "conv-1", <<"H", "i">>, Some("msg-1"))
          /\ UNCHANGED history
          /\ UNCHANGED client
    \/ \E p \in Procs, reply \in {OkReply, ErrorReply} :
          fetchSettles(p, reply, 0) /\ UNCHANGED history /\ UNCHANGED client
    \/ \E p \in Procs : retryAfterBackoff(p) /\ UNCHANGED history /\ UNCHANGED client
    \/ \E p \in Procs : settle(p) /\ UNCHANGED history /\ UNCHANGED client
    \/ \E tm \in timers : evictionTimerFires(tm) /\ UNCHANGED history /\ UNCHANGED client
    \/ \E t \in BackoffInstants \cup CacheInstants :
          ticks < EvictTicks /\ tick(t) /\ UNCHANGED history /\ UNCHANGED client

SpecEvict == Init /\ [][NextEvict]_vars

\* this step is the callback of eviction timer tm
TimerFires(tm) == tm \in timers /\ timers' = timers \ {tm}

(***************************************************************************)
(* C33: when an eviction timer fires, every entry with expiresAt > now     *)
(* stays in the cache as it is and is what a lookup at that instant        *)
(* returns; the one entry the callback may delete is that of the timer's   *)
(* key, and only if its expiresAt <= now.                                  *)
(***************************************************************************)
C33_EvictionSparesLiveEntries ==
    [][\A tm \in timers : TimerFires(tm) =>
          /\ \A e \in requestCache :
                e.expiresAt > now =>
                    /\ e \in requestCache'
                    /\ checkIdempotency(requestCache', e.key, now).hit = Some(e.data)
          /\ \A e \in requestCache \ requestCache' :
                e.key = tm.key /\ e.expiresAt <= now
          /\ requestCache' \subseteq requestCache]_vars

\* handler p wrote a 5-minute fallback entry for the key, an overlapping
\* request replaced it with a 24-hour entry before the timer of the first
\* write was due, that timer has fired, and the entry is there
C33_Witness ==
    \E p \in Procs :
        /\ h[p].pc = "done"
        /\ Truthy(h[p].idempotencyKey)
        /\ h[p].returned # Nothing
        /\ "error" \in DOMAIN The(h[p].returned).metadata
        /\ ~RefusedByBreaker(The(h[p].returned))
        /\ LET key == The(h[p].idempotencyKey)
               written == The(h[p].returned).message.timestamp
           IN /\ [key |-> key, fireAt |-> written + FallbackTtlMs] \notin timers
              /\ now >= written + FallbackTtlMs
              /\ LiveEntry(key)
              /\ MapGet(requestCache, key).data.metadata.model = LiveModel
              /\ MapGet(requestCache, key).expiresAt - SuccessTtlMs
                     < written + FallbackTtlMs

\* in this step invocation i, which passed the entry guard, ends
SendEnds(i) == sends[i].pc \in {"calling", "revealing", "saving"} /\ sends'[i].pc = "done"

(***************************************************************************)
(* C34 as stated, its safety half: when a sendMessage invocation that      *)
(* passed the entry guard has ended, whatever its outcome, isSending and   *)
(* isStreaming are false and the streaming buffer is empty.                *)
(***************************************************************************)
C34_SendEndsClean ==
    [][\A i \in Sends : SendEnds(i) =>
          /\ ~store'.isSending
          /\ ~store'.isStreaming
          /\ store'.streamingMessage = <<>>]_vars

====
